---- MODULE Spec2Model ----
(***************************************************************************)
(* The OAuth authorization server of greeting_mcp_server: the client       *)
(* registry (oauth/storage.py) and the register, authorize and token       *)
(* endpoints (main.py), the signing keypair and the tokens                  *)
(* (oauth/jwt_utils.py), and the PKCE pair of the client                   *)
(* (dynamic_mcp_client/oauth/pkce.py).                                      *)
(*                                                                         *)
(* Optional values (Python's None) are the string NONE.  A value that      *)
(* Python treats as false in `if not x` / `if x` is NONE or the empty      *)
(* string.  Optional objects returned by the registry are sets with zero   *)
(* or one element.                                                         *)
(***************************************************************************)
EXTENDS Integers, Sequences, FiniteSets, TLC

VARIABLES
    clients,      \* ClientStorage._clients: client_id -> OAuthClient
    auth_codes,   \* ClientStorage._auth_codes: code -> AuthorizationCode
    req,          \* the request handled last (handlers run to completion)
    resp,         \* the response to it
    nreq,         \* number of requests handled or accepted so far
    wpc,          \* concurrent handlers and threads: position of each worker
    wreq,         \* concurrent handlers and threads: the worker's request
    wresp,        \* concurrent handlers and threads: the worker's response
    now,          \* the clock, in seconds
    key_files,    \* keys/private_key.pem and keys/public_key.pem on disk
    nkeys,        \* number of keypairs generated so far
    client_file,  \* oauth_clients.json on disk
    boots,        \* number of times the server process has started
    held_token,   \* the access token the client keeps from a token response
    verified,     \* the last call of verify_token or validate_token: inputs, outcome
    servers_file, \* dynamic_mcp_client: servers.json on disk
    callback,     \* dynamic_mcp_client: the CallbackServer and its waiting caller
    mcp_client    \* dynamic_mcp_client: the MCPClient and its last call

vars == <<clients, auth_codes, req, resp, nreq, wpc, wreq, wresp, now, key_files,
          nkeys, client_file, boots, held_token, verified, servers_file,
          callback, mcp_client>>

\* the state of dynamic_mcp_client
client_side_vars == <<servers_file, callback, mcp_client>>

\* the state of the registry and the requests in flight
oauth_vars == <<clients, auth_codes, req, resp, nreq, wpc, wreq, wresp>>

----------------------------------------------------------------------------
(* Bounds of the model *)

MaxClients == 2
MaxCodes == 1
MaxRequests == 4
MaxWorkers == 2
MaxKeys == 2
MaxBoots == 2
MaxTicks == 3
MaxTokens == 1

----------------------------------------------------------------------------
(* Values *)

NONE == "NONE"

\* `not x` of Python for an optional string
Falsy(x) == x = NONE \/ x = ""

\* uuid.uuid4() / secrets.token_urlsafe(32): the n-th generated value is the
\* n-th element of a pool of pairwise distinct values
ClientIdPool == <<"c1", "c2", "c3", "c4">>
SecretPool == <<"s1", "s2", "s3", "s4">>
CodePool == <<"k1", "k2", "k3", "k4", "k5", "k6">>

\* the client ids and secrets that requests present, and the codes
ReqClientIds == {"c1", "c2"}
ReqSecrets == {"s1", "s2"}
Codes == {CodePool[i] : i \in 1..MaxCodes}

Uris == {"u1", "u2"}
Verifiers == {"v1", "v2"}

\* base64.urlsafe_b64encode(hashlib.sha256(v.encode()).digest()).decode().rstrip("=")
\* SHA-256 is modelled as injective, with values that are no verifier
S256(v) == "S256(" \o v \o ")"

\* secrets.token_bytes(32): the random values of the client
TokenBytes == {"r1", "r2"}

\* base64.urlsafe_b64encode(r).rstrip(b'=').decode('utf-8') of a random value:
\* the encoding is injective, distinct random values give distinct verifiers
VerifierText(r) == IF r = "r1" THEN "v1" ELSE "v2"

\* dynamic_mcp_client/oauth/pkce.py: (code_verifier, code_challenge) made from
\* the random value r
generate_pkce_pair(r) ==
    LET code_verifier == VerifierText(r)
        code_challenge == S256(code_verifier)
    IN <<code_verifier, code_challenge>>

AC == "authorization_code"
CC == "client_credentials"
DEFAULT_SCOPE == "mcp:tools"
ISSUER == "http://localhost:8000"
AUDIENCE == "mcp-greeting-server"
DEFAULT_KID == "default-key-2025"

\* expires_delta=timedelta(hours=1) and expires_in=3600, in seconds
EXPIRES_IN == 3600

\* the clock advances by half a token lifetime
TickSeconds == EXPIRES_IN \div 2

----------------------------------------------------------------------------
(* Responses *)

\* HTTPException(status_code, detail={"error": e}) / JSONResponse(status_code, {"error": e})
ErrorResponse(st, e) == [status |-> st, error |-> e]

IsError(r, st, e) == "error" \in DOMAIN r /\ r.status = st /\ r.error = e

IsToken(r) == "access_token" \in DOMAIN r /\ r.status = 200

\* the answer to a request whose handler raised an exception it does not catch
InternalServerError == [status |-> 500, body |-> "Internal Server Error"]

----------------------------------------------------------------------------
(* The signing keypair (oauth/jwt_utils.py).  A PEM text is the record of   *)
(* the numbers it encodes; a key file is a set holding the text, empty when *)
(* the file does not exist.                                                 *)

\* public_exponent=65537
PUBLIC_EXPONENT == 65537

\* rsa.generate_private_key: the k-th key generated has the k-th modulus of a
\* pool of pairwise distinct moduli (of one, two, three and four bytes)
KeyModuli == <<3233, 187, 70747, 16843009>>

\* (private_pem, public_pem) of the k-th key generated
generate_rsa_keypair(k) ==
    <<[kind |-> "private", n |-> KeyModuli[k], e |-> PUBLIC_EXPONENT],
      [kind |-> "public", n |-> KeyModuli[k], e |-> PUBLIC_EXPONENT]>>

NoKeyFiles == [private |-> {}, public |-> {}]

\* private_path.write_text(private_key_pem); public_path.write_text(public_key_pem)
save_keypair(private_key_pem, public_key_pem) ==
    [private |-> {private_key_pem}, public |-> {public_key_pem}]

\* the pair read from the files; none (FileNotFoundError) if either is missing
load_keypair(files) ==
    IF files.private = {} \/ files.public = {}
    THEN {}
    ELSE {<<CHOOSE k \in files.private : TRUE, CHOOSE k \in files.public : TRUE>>}

\* mutant: a new pair is generated and saved whether or not the files exist
MutAlwaysGenerate(files, k) ==
    LET next == IF k < Len(KeyModuli) THEN k + 1 ELSE 1
        pair == generate_rsa_keypair(next)
    IN [pair |-> pair, files |-> save_keypair(pair[1], pair[2]), nkeys |-> next]

\* the loaded pair, or a newly generated pair that is saved; with the files and
\* the number of generated keys the call leaves
get_or_create_keypair(files, k) ==
    LET loaded == load_keypair(files)
        pair == generate_rsa_keypair(k + 1)
    IN IF loaded # {}
       THEN [pair |-> CHOOSE l \in loaded : TRUE, files |-> files, nkeys |-> k]
       ELSE [pair |-> pair, files |-> save_keypair(pair[1], pair[2]),
             nkeys |-> k + 1]

\* the alphabet of base64.urlsafe_b64encode; an encoded text is the sequence of
\* its characters
B64Alphabet ==
    <<"A", "B", "C", "D", "E", "F", "G", "H", "I", "J", "K", "L", "M", "N", "O",
      "P", "Q", "R", "S", "T", "U", "V", "W", "X", "Y", "Z", "a", "b", "c", "d",
      "e", "f", "g", "h", "i", "j", "k", "l", "m", "n", "o", "p", "q", "r", "s",
      "t", "u", "v", "w", "x", "y", "z", "0", "1", "2", "3", "4", "5", "6", "7",
      "8", "9", "-", "_">>

\* num.to_bytes((num.bit_length() + 7) // 8, byteorder='big')
RECURSIVE to_bytes(_)
to_bytes(num) ==
    IF num = 0 THEN <<>> ELSE Append(to_bytes(num \div 256), num % 256)

\* base64.urlsafe_b64encode(b).rstrip(b'=')
RECURSIVE urlsafe_b64encode(_)
urlsafe_b64encode(b) ==
    IF Len(b) = 0 THEN <<>>
    ELSE IF Len(b) = 1
    THEN <<B64Alphabet[(b[1] \div 4) + 1], B64Alphabet[(b[1] % 4) * 16 + 1]>>
    ELSE IF Len(b) = 2
    THEN <<B64Alphabet[(b[1] \div 4) + 1],
           B64Alphabet[(b[1] % 4) * 16 + (b[2] \div 16) + 1],
           B64Alphabet[(b[2] % 16) * 4 + 1]>>
    ELSE <<B64Alphabet[(b[1] \div 4) + 1],
           B64Alphabet[(b[1] % 4) * 16 + (b[2] \div 16) + 1],
           B64Alphabet[(b[2] % 16) * 4 + (b[3] \div 64) + 1],
           B64Alphabet[(b[3] % 64) + 1]>>
         \o urlsafe_b64encode(SubSeq(b, 4, Len(b)))

int_to_base64url(num) == urlsafe_b64encode(to_bytes(num))

\* mutant: modulus and exponent are exchanged
MutJwkSwapsNE(public_key_pem, kid) ==
    [kty |-> "RSA", use |-> "sig", alg |-> "RS256", kid |-> kid,
     n |-> int_to_base64url(public_key_pem.e),
     e |-> int_to_base64url(public_key_pem.n)]

\* the JWK of a public key
public_key_to_jwk(public_key_pem, kid) ==
    [kty |-> "RSA", use |-> "sig", alg |-> "RS256", kid |-> kid,
     n |-> int_to_base64url(public_key_pem.n),
     e |-> int_to_base64url(public_key_pem.e)]

----------------------------------------------------------------------------
(* Tokens (oauth/jwt_utils.py).  A token is the record of its header, its   *)
(* claims and its signature; an RS256 signature is the modulus of the key   *)
(* that made it together with the header and claims it was made over, so    *)
(* that it verifies under one public key and for one content only.  The     *)
(* clock counts whole seconds, so int(now.timestamp()) is the clock.        *)

\* jwt.encode(claims, private_key_pem, algorithm="RS256", headers={"kid": kid})
jwt_encode(claims, private_key_pem, kid) ==
    LET header == [alg |-> "RS256", typ |-> "JWT", kid |-> kid]
    IN [header |-> header, claims |-> claims,
        signature |-> [n |-> private_key_pem.n, header |-> header,
                       claims |-> claims]]

\* the token signed now; expires_delta is in seconds
create_access_token(client_id, issuer, audience, private_key_pem, kid, expires_delta, scope) ==
    jwt_encode([iss |-> issuer, sub |-> client_id, aud |-> audience,
                iat |-> now, exp |-> now + expires_delta, scope |-> scope],
               private_key_pem, kid)

\* a text that is no JWT
MalformedToken == [malformed |-> TRUE]

\* mutant: a token is expired only after the second of its exp
MutExpStrict(t, token, public_key_pem, issuer, audience) ==
    IF "header" \notin DOMAIN token
    THEN [ok |-> FALSE, error |-> "DecodeError"]
    ELSE IF token.header.alg # "RS256"
    THEN [ok |-> FALSE, error |-> "InvalidAlgorithmError"]
    ELSE IF token.signature # [n |-> public_key_pem.n, header |-> token.header,
                               claims |-> token.claims]
    THEN [ok |-> FALSE, error |-> "InvalidSignatureError"]
    ELSE IF token.claims.exp < t
    THEN [ok |-> FALSE, error |-> "ExpiredSignatureError"]
    ELSE IF token.claims.iss # issuer
    THEN [ok |-> FALSE, error |-> "InvalidIssuerError"]
    ELSE IF token.claims.aud # audience
    THEN [ok |-> FALSE, error |-> "InvalidAudienceError"]
    ELSE [ok |-> TRUE, claims |-> token.claims]

\* jwt.decode(token, public_key_pem, algorithms=["RS256"], issuer=issuer,
\* audience=audience) at time t: the claims, or the exception raised.  The checks
\* run in the order of PyJWT: structure, algorithm, signature, exp, iss, aud; the
\* kid of the header is not read.
jwt_decode(t, token, public_key_pem, issuer, audience) ==
    IF "header" \notin DOMAIN token
    THEN [ok |-> FALSE, error |-> "DecodeError"]
    ELSE IF token.header.alg # "RS256"
    THEN [ok |-> FALSE, error |-> "InvalidAlgorithmError"]
    ELSE IF token.signature # [n |-> public_key_pem.n, header |-> token.header,
                               claims |-> token.claims]
    THEN [ok |-> FALSE, error |-> "InvalidSignatureError"]
    ELSE IF token.claims.exp <= t
    THEN [ok |-> FALSE, error |-> "ExpiredSignatureError"]
    ELSE IF token.claims.iss # issuer
    THEN [ok |-> FALSE, error |-> "InvalidIssuerError"]
    ELSE IF token.claims.aud # audience
    THEN [ok |-> FALSE, error |-> "InvalidAudienceError"]
    ELSE [ok |-> TRUE, claims |-> token.claims]

\* the claims returned, or the exception of jwt.decode, which is not caught
verify_token(token, public_key_pem, issuer, audience) ==
    jwt_decode(now, token, public_key_pem, issuer, audience)

----------------------------------------------------------------------------
(* Tokens of simple_mcp_server (server/oauth/token.py, dependencies.py),    *)
(* made and verified with python-jose under the settings of config.py.  An  *)
(* HS256 signature is the secret that made it with the header and claims.   *)

\* Settings(): SECRET_KEY from the environment, the defaults of config.py
Settings(secret_key, server_uri, expire_minutes) ==
    [SECRET_KEY |-> secret_key, SERVER_URI |-> server_uri,
     ACCESS_TOKEN_EXPIRE_MINUTES |-> expire_minutes]

\* server/oauth/token.py create_access_token: the token (the first component
\* of its result)
simple_create_access_token(settings, client_id) ==
    LET header == [alg |-> "HS256", typ |-> "JWT"]
        claims == [sub |-> client_id, aud |-> settings.SERVER_URI, iat |-> now,
                   exp |-> now + settings.ACCESS_TOKEN_EXPIRE_MINUTES * 60,
                   scope |-> DEFAULT_SCOPE]
    IN [header |-> header, claims |-> claims,
        signature |-> [secret |-> settings.SECRET_KEY, header |-> header,
                       claims |-> claims]]

\* server/oauth/token.py verify_token: jose's jwt.decode(token, SECRET_KEY,
\* algorithms=["HS256"], audience=SERVER_URI); the payload, or the class of the
\* exception raised (each is JWTError or a subclass of it)
simple_verify_token(settings, token) ==
    IF "header" \notin DOMAIN token
    THEN [ok |-> FALSE, error |-> "JWTError"]
    ELSE IF token.header.alg # "HS256"
    THEN [ok |-> FALSE, error |-> "JWTError"]
    ELSE IF token.signature # [secret |-> settings.SECRET_KEY,
                               header |-> token.header, claims |-> token.claims]
    THEN [ok |-> FALSE, error |-> "JWTError"]
    ELSE IF token.claims.exp < now
    THEN [ok |-> FALSE, error |-> "ExpiredSignatureError"]
    ELSE IF token.claims.aud # settings.SERVER_URI
    THEN [ok |-> FALSE, error |-> "JWTClaimsError"]
    ELSE [ok |-> TRUE, claims |-> token.claims]

\* mutant: the dependency accepts every bearer token
MutAcceptAll(settings, credentials) == [ok |-> TRUE, claims |-> <<>>]

\* dependencies.py validate_token: the payload, or HTTPException(401) for every
\* JWTError
validate_token(settings, credentials) ==
    LET payload == simple_verify_token(settings, credentials)
    IN IF payload.ok
       THEN payload
       ELSE [ok |-> FALSE, status |-> 401,
             detail |-> "Invalid authentication credentials",
             www_authenticate |-> settings.SERVER_URI]

----------------------------------------------------------------------------
(* Responses of the token endpoint *)

\* lines 406-424: the token signed with the key of get_or_create_keypair, in
\* TokenResponse(...).model_dump() in a JSONResponse (status 200)
TokenResponse(client_id, scope) ==
    LET private_key_pem == get_or_create_keypair(key_files, nkeys).pair[1]
    IN [status |-> 200,
        access_token |-> create_access_token(client_id, ISSUER, AUDIENCE,
                             private_key_pem, DEFAULT_KID, EXPIRES_IN, scope),
        token_type |-> "Bearer", expires_in |-> EXPIRES_IN, scope |-> scope]

----------------------------------------------------------------------------
(* ClientStorage (oauth/storage.py).  Every method below runs under         *)
(* self._lock, so each is one atomic step on the maps.                      *)

\* OAuthClient(...)
OAuthClient(client_id, client_secret, client_name, redirect_uris, grant_types) ==
    [client_id |-> client_id, client_secret |-> client_secret,
     client_name |-> client_name, redirect_uris |-> redirect_uris,
     grant_types |-> grant_types]

\* mutant: storing a client drops the clients stored before
MutCreateAlone(cs, client) ==
    [id \in {client.client_id} |-> client]

\* self._clients[client_id] = client
create_client(cs, client) ==
    [id \in DOMAIN cs \cup {client.client_id} |->
        IF id = client.client_id THEN client ELSE cs[id]]

\* self._clients.get(client_id): zero or one client
get_client(client_id) ==
    IF client_id \in DOMAIN clients THEN {clients[client_id]} ELSE {}

\* mutant: an unknown client passes
MutAcceptUnknown(client_id, client_secret) ==
    \A c \in get_client(client_id) : c.client_secret = client_secret

\* client = self.get_client(client_id); False if none, else exact comparison
validate_credentials(client_id, client_secret) ==
    \E c \in get_client(client_id) : c.client_secret = client_secret

\* AuthorizationCode(..., created_at=datetime.now(timezone.utc).isoformat(),
\* used=False)
AuthorizationCode(code, client_id, redirect_uri, code_challenge, code_challenge_method, scope) ==
    [code |-> code, client_id |-> client_id, redirect_uri |-> redirect_uri,
     code_challenge |-> code_challenge,
     code_challenge_method |-> code_challenge_method, scope |-> scope,
     created_at |-> now, used |-> FALSE]

\* self._auth_codes[code] = auth_code_obj
store_authorization_code(codes, ac) ==
    [k \in DOMAIN codes \cup {ac.code} |-> IF k = ac.code THEN ac ELSE codes[k]]

\* mutant: the used flag is not looked at
MutGetUsed(codes, code) ==
    IF code \in DOMAIN codes THEN {codes[code]} ELSE {}

\* the code if it is stored and not used, else None
get_authorization_code(codes, code) ==
    IF code \in DOMAIN codes /\ ~codes[code].used THEN {codes[code]} ELSE {}

\* mutant: a consumed code is dropped from the map instead of being flagged
MutDropCode(codes, code) ==
    [k \in DOMAIN codes \ {code} |-> codes[k]]

\* auth_code.used = True when the code is stored
mark_code_as_used(codes, code) ==
    IF code \in DOMAIN codes THEN [codes EXCEPT ![code].used = TRUE] ELSE codes

----------------------------------------------------------------------------
(* POST /register (main.py, register_endpoint_route) *)

\* registration bodies; an omitted redirect_uris or grant_types is the empty set
RegisterRequests ==
    {[endpoint |-> "register", client_name |-> p[3], redirect_uris |-> p[1],
      grant_types |-> p[2]] :
        p \in {<<{}, {}, "app">>, <<{"u1"}, {}, "app">>,
               <<{"u1", "u2"}, {AC}, "web">>}}

\* json.dumps(data, indent=2) of the dictionary of the clients: a whole text
json_dumps(cs) == [whole |-> TRUE, data |-> cs]

\* what a write that did not finish leaves of a text: a proper prefix of it,
\* possibly empty, which is no JSON text
TruncatedText == [whole |-> FALSE, data |-> <<>>]

\* json.loads(text): the dictionary, or none when it raises
json_loads(text) == IF text.whole THEN {text.data} ELSE {}

\* how a write to a file ends: it succeeds, it fails before the file is opened
\* (mkdir or open raises), or it fails after open has created or emptied the
\* file (write or close raises)
IoOutcomes == {"ok", "fail_before_open", "fail_after_open"}

\* Path.write_text(text): open(mode="w") creates or empties the file, then the
\* text is written; the file it leaves
write_text(file, text, io) ==
    CASE io = "ok" -> {text}
      [] io = "fail_after_open" -> {TruncatedText}
      [] OTHER -> file

\* _save_to_file: the file holds every client of the registry
save_to_file(cs) == write_text({}, json_dumps(cs), "ok")

\* _load_from_file, called when the file exists: the clients of the file; an
\* exception of read_text or json.loads is printed and the registry is empty
load_from_file(file) ==
    IF file = {} THEN <<>>
    ELSE LET got == json_loads(CHOOSE text \in file : TRUE)
         IN IF got = {} THEN <<>> ELSE CHOOSE data \in got : TRUE

register_endpoint_route(r) ==
    /\ UNCHANGED client_side_vars
    /\ nreq < MaxRequests
    /\ Cardinality(DOMAIN clients) < MaxClients
    /\ LET n == Cardinality(DOMAIN clients) + 1
           client_id == ClientIdPool[n]
           client_secret == SecretPool[n]
           redirect_uris == r.redirect_uris
           grant_types == IF r.grant_types = {} THEN {CC} ELSE r.grant_types
           client == OAuthClient(client_id, client_secret, r.client_name,
                                 redirect_uris, grant_types)
       IN /\ clients' = create_client(clients, client)
          /\ client_file' = save_to_file(clients')
          /\ resp' = [status |-> 200, client_id |-> client.client_id,
                      client_secret |-> client.client_secret,
                      client_name |-> client.client_name,
                      redirect_uris |-> client.redirect_uris,
                      grant_types |-> client.grant_types]
    /\ req' = r
    /\ nreq' = nreq + 1
    /\ UNCHANGED <<auth_codes, wpc, wreq, wresp, now, key_files, nkeys, boots,
                   held_token, verified>>

----------------------------------------------------------------------------
(* GET and POST /oauth/authorize (main.py, authorize_endpoint_route) *)

\* the (code_challenge, code_challenge_method) pairs requests carry
NoPkce == <<NONE, NONE>>
PkceParams ==
    {NoPkce, <<"", "S256">>, <<generate_pkce_pair("r1")[2], "S256">>,
     <<"v1", "plain">>,
     <<"v1", NONE>>, <<"v1", "S512">>}

AuthorizeFields(methods, ids, uris, states, pkce, scopes) ==
    {[endpoint |-> "authorize", method |-> m, client_id |-> id,
      redirect_uri |-> u, state |-> st, code_challenge |-> p[1],
      code_challenge_method |-> p[2], scope |-> sc] :
        m \in methods, id \in ids, u \in uris, st \in states, p \in pkce,
        sc \in scopes}

\* every combination of present, absent, known and unknown client_id and
\* redirect_uri for both methods; every PKCE pair, and a state and a scope, on
\* approvals that name a client and a URI; an approval whose state holds a
\* URL delimiter
AuthorizeRequests ==
    AuthorizeFields({"GET", "POST"}, ReqClientIds \cup {NONE}, Uris \cup {NONE},
                    {NONE}, {NoPkce}, {NONE})
    \cup AuthorizeFields({"POST"}, ReqClientIds, Uris, {NONE}, PkceParams, {NONE})
    \cup AuthorizeFields({"POST"}, ReqClientIds, Uris, {"xyz"}, {NoPkce}, {"read"})
    \cup AuthorizeFields({"POST"}, {"c1"}, {"u1"}, {"a&b"}, {NoPkce}, {NONE})

\* request.query_params.get(key, default)
Default(x, d) == IF x = NONE THEN d ELSE x

\* the characters of a text, as the sequence of its URL delimiters and of the
\* runs of other characters between them
Chars(text) ==
    IF text = "a&b" THEN <<"a", "&", "b">> ELSE <<text>>

\* f"{redirect_uri}?code={auth_code}" and, if state, f"&state={state}": the
\* characters of the URL (RedirectResponse leaves the delimiters as they are)
RedirectUrl(redirect_uri, auth_code, state) ==
    Chars(redirect_uri) \o <<"?", "code", "=">> \o Chars(auth_code) \o
        (IF Falsy(state) THEN <<>> ELSE <<"&", "state", "=">> \o Chars(state))

\* position of the first occurrence of a character, 0 if there is none
IndexOf(text, ch) ==
    IF \E i \in 1..Len(text) : text[i] = ch
    THEN CHOOSE i \in 1..Len(text) :
            text[i] = ch /\ \A j \in 1..(i - 1) : text[j] # ch
    ELSE 0

\* text.split(ch)
RECURSIVE Split(_, _)
Split(text, ch) ==
    LET i == IndexOf(text, ch)
    IN IF i = 0
       THEN <<text>>
       ELSE <<SubSeq(text, 1, i - 1)>> \o Split(SubSeq(text, i + 1, Len(text)), ch)

\* urllib.parse.urlparse(url): what precedes the query, and the query
urlparse(url) ==
    LET h == IndexOf(url, "#")
        nofragment == IF h = 0 THEN url ELSE SubSeq(url, 1, h - 1)
        q == IndexOf(nofragment, "?")
    IN IF q = 0
       THEN [base |-> nofragment, query |-> <<>>]
       ELSE [base |-> SubSeq(nofragment, 1, q - 1),
             query |-> SubSeq(nofragment, q + 1, Len(nofragment))]

\* urllib.parse.parse_qs(query): the (name, value) fields in order; a field with
\* no "=" or with a blank value is dropped
parse_qs(query) ==
    LET fields == Split(query, "&")
        Named(f) == IndexOf(f, "=") > 0 /\ IndexOf(f, "=") < Len(f)
        Field(f) == <<SubSeq(f, 1, IndexOf(f, "=") - 1),
                      SubSeq(f, IndexOf(f, "=") + 1, Len(f))>>
        kept == SelectSeq(fields, Named)
    IN [i \in 1..Len(kept) |-> Field(kept[i])]

\* parse_qs(query)[name]: the values of the fields of that name
QueryValues(params, name) ==
    LET named == SelectSeq(params, LAMBDA p : p[1] = <<name>>)
    IN [i \in 1..Len(named) |-> named[i][2]]

\* mutant: the redirect_uri is not compared with the registered ones
MutNoUriCheck(r) ==
    IF Falsy(r.client_id) \/ Falsy(r.redirect_uri)
    THEN {ErrorResponse(400, "invalid_request")}
    ELSE IF get_client(r.client_id) = {}
    THEN {ErrorResponse(400, "invalid_client")}
    ELSE {}

\* the validation both methods run first: the error response, if any
AuthorizeValidation(r) ==
    IF Falsy(r.client_id) \/ Falsy(r.redirect_uri)
    THEN {ErrorResponse(400, "invalid_request")}
    ELSE IF get_client(r.client_id) = {}
    THEN {ErrorResponse(400, "invalid_client")}
    ELSE IF \E c \in get_client(r.client_id) : r.redirect_uri \notin c.redirect_uris
    THEN {ErrorResponse(400, "invalid_request")}
    ELSE {}

authorize_endpoint_route(r) ==
    /\ UNCHANGED client_side_vars
    /\ nreq < MaxRequests
    /\ LET code_challenge_method == Default(r.code_challenge_method, "plain")
           scope == Default(r.scope, DEFAULT_SCOPE)
           err == AuthorizeValidation(r)
           \* secrets.token_urlsafe(32): a value no earlier process generated
           auth_code == CodePool[(boots - 1) * MaxCodes
                                 + Cardinality(DOMAIN auth_codes) + 1]
       IN IF err # {}
          THEN /\ resp' = CHOOSE e \in err : TRUE
               /\ UNCHANGED auth_codes
          ELSE IF r.method = "POST"
          THEN /\ Cardinality(DOMAIN auth_codes) < MaxCodes
               /\ auth_codes' = store_authorization_code(auth_codes,
                      AuthorizationCode(auth_code, r.client_id, r.redirect_uri,
                                        r.code_challenge, code_challenge_method,
                                        scope))
               /\ resp' = [status |-> 302,
                           location |-> RedirectUrl(r.redirect_uri, auth_code,
                                                    r.state)]
          ELSE /\ resp' = [status |-> 200, body |-> "consent"]
               /\ UNCHANGED auth_codes
    /\ req' = r
    /\ nreq' = nreq + 1
    /\ UNCHANGED <<clients, wpc, wreq, wresp, now, key_files, nkeys, client_file,
                   boots, held_token, verified>>

----------------------------------------------------------------------------
(* POST /oauth/token (main.py, token_endpoint_route) *)

TokenFields(grants, ids, secrets, codes, uris, verifiers, scopes) ==
    [endpoint : {"token"}, grant_type : grants, client_id : ids,
     client_secret : secrets, code : codes, redirect_uri : uris,
     code_verifier : verifiers, scope : scopes]

\* client_credentials requests (no code, redirect_uri or verifier), one request
\* of an unsupported grant type, code exchanges with every combination of
\* client, secret, code, URI and verifier, exchanges lacking a parameter, and
\* an exchange that sends a scope
TokenRequests ==
    TokenFields({CC}, ReqClientIds, ReqSecrets, {NONE}, {NONE}, {NONE},
                {NONE, "read"})
    \cup TokenFields({"password"}, {"c1"}, {"s1"}, {NONE}, {NONE}, {NONE}, {NONE})
    \cup TokenFields({AC}, ReqClientIds, ReqSecrets, Codes, Uris,
                     Verifiers \cup {NONE}, {NONE})
    \cup TokenFields({AC}, {"c1"}, ReqSecrets, Codes \cup {NONE, ""},
                     {"u1", NONE, ""}, {NONE}, {NONE})
    \cup TokenFields({AC}, {"c1"}, {"s1"}, Codes, {"u1"}, {NONE}, {"admin"})

\* lines 323-350 and 400-404: grant type, required parameters, credentials;
\* the error raised, if any
TokenCredentialCheck(r) ==
    IF r.grant_type = CC
    THEN IF ~validate_credentials(r.client_id, r.client_secret)
         THEN {ErrorResponse(401, "invalid_client")}
         ELSE {}
    ELSE IF r.grant_type = AC
    THEN IF Falsy(r.code) \/ Falsy(r.redirect_uri)
         THEN {ErrorResponse(400, "invalid_request")}
         ELSE IF ~validate_credentials(r.client_id, r.client_secret)
         THEN {ErrorResponse(401, "invalid_client")}
         ELSE {}
    ELSE {ErrorResponse(400, "unsupported_grant_type")}

\* mutant: the verifier is compared as it is, whatever the method
MutPlainOnly(code_challenge_method, code_verifier) ==
    code_verifier

\* lines 382-388: the challenge computed from the verifier
ComputedChallenge(code_challenge_method, code_verifier) ==
    IF code_challenge_method = "S256" THEN S256(code_verifier) ELSE code_verifier

\* mutant: a missing verifier is answered invalid_grant
MutMissingVerifierGrant(r, auth_code) ==
    IF ~Falsy(auth_code.code_challenge)
    THEN IF Falsy(r.code_verifier)
         THEN {ErrorResponse(400, "invalid_grant")}
         ELSE IF ComputedChallenge(auth_code.code_challenge_method,
                                   r.code_verifier) # auth_code.code_challenge
         THEN {ErrorResponse(400, "invalid_grant")}
         ELSE {}
    ELSE {}

\* mutant: a verifier is required whether or not a challenge was stored
MutVerifierAlways(r, auth_code) ==
    IF Falsy(r.code_verifier)
    THEN {ErrorResponse(400, "invalid_request")}
    ELSE IF ~Falsy(auth_code.code_challenge)
            /\ ComputedChallenge(auth_code.code_challenge_method,
                                 r.code_verifier) # auth_code.code_challenge
    THEN {ErrorResponse(400, "invalid_grant")}
    ELSE {}

\* lines 374-394: PKCE, run only if the stored challenge is truthy
PkceCheck(r, auth_code) ==
    IF ~Falsy(auth_code.code_challenge)
    THEN IF Falsy(r.code_verifier)
         THEN {ErrorResponse(400, "invalid_request")}
         ELSE IF ComputedChallenge(auth_code.code_challenge_method,
                                   r.code_verifier) # auth_code.code_challenge
         THEN {ErrorResponse(400, "invalid_grant")}
         ELSE {}
    ELSE {}

\* mutant: the client the code was issued to is not compared
MutNoClientCheck(r, auth_code) ==
    IF auth_code.redirect_uri # r.redirect_uri
    THEN {ErrorResponse(400, "invalid_grant")}
    ELSE PkceCheck(r, auth_code)

\* lines 360-394: the checks on the code that was found; the error raised, if any
CodeChecks(r, auth_code) ==
    IF auth_code.client_id # r.client_id
    THEN {ErrorResponse(400, "invalid_grant")}
    ELSE IF auth_code.redirect_uri # r.redirect_uri
    THEN {ErrorResponse(400, "invalid_grant")}
    ELSE PkceCheck(r, auth_code)

\* mutant: the code is marked used as soon as it is found, before the checks
MutConsumeFirst(r) ==
    LET e1 == TokenCredentialCheck(r)
        got == get_authorization_code(auth_codes, r.code)
        consumed == mark_code_as_used(auth_codes, r.code)
    IN IF e1 # {}
       THEN [resp |-> CHOOSE e \in e1 : TRUE, codes |-> auth_codes]
       ELSE IF r.grant_type = CC
       THEN [resp |-> TokenResponse(r.client_id, Default(r.scope, DEFAULT_SCOPE)),
             codes |-> auth_codes]
       ELSE IF got = {}
       THEN [resp |-> ErrorResponse(400, "invalid_grant"), codes |-> auth_codes]
       ELSE LET auth_code == CHOOSE a \in got : TRUE
                e2 == CodeChecks(r, auth_code)
            IN IF e2 # {}
               THEN [resp |-> CHOOSE e \in e2 : TRUE, codes |-> consumed]
               ELSE [resp |-> TokenResponse(r.client_id, auth_code.scope),
                     codes |-> consumed]

\* line 407: a handler that issues a token has called get_or_create_keypair,
\* which leaves the key files it loaded or saved
KeysAfterToken(response) ==
    IF IsToken(response)
    THEN LET got == get_or_create_keypair(key_files, nkeys)
         IN key_files' = got.files /\ nkeys' = got.nkeys
    ELSE UNCHANGED <<key_files, nkeys>>

\* mutant: the token of a code exchange carries the scope the token request sends
MutScopeFromRequest(r) ==
    LET e1 == TokenCredentialCheck(r)
        got == get_authorization_code(auth_codes, r.code)
    IN IF e1 # {}
       THEN [resp |-> CHOOSE e \in e1 : TRUE, codes |-> auth_codes]
       ELSE IF r.grant_type = CC
       THEN [resp |-> TokenResponse(r.client_id, Default(r.scope, DEFAULT_SCOPE)),
             codes |-> auth_codes]
       ELSE IF got = {}
       THEN [resp |-> ErrorResponse(400, "invalid_grant"), codes |-> auth_codes]
       ELSE LET auth_code == CHOOSE a \in got : TRUE
                e2 == CodeChecks(r, auth_code)
            IN IF e2 # {}
               THEN [resp |-> CHOOSE e \in e2 : TRUE, codes |-> auth_codes]
               ELSE [resp |-> TokenResponse(r.client_id,
                                            Default(r.scope, DEFAULT_SCOPE)),
                     codes |-> mark_code_as_used(auth_codes, r.code)]

\* the whole handler: its response and the code map it leaves
TokenHandler(r) ==
    LET e1 == TokenCredentialCheck(r)
        got == get_authorization_code(auth_codes, r.code)
    IN IF e1 # {}
       THEN [resp |-> CHOOSE e \in e1 : TRUE, codes |-> auth_codes]
       ELSE IF r.grant_type = CC
       THEN [resp |-> TokenResponse(r.client_id, Default(r.scope, DEFAULT_SCOPE)),
             codes |-> auth_codes]
       ELSE IF got = {}
       THEN [resp |-> ErrorResponse(400, "invalid_grant"), codes |-> auth_codes]
       ELSE LET auth_code == CHOOSE a \in got : TRUE
                e2 == CodeChecks(r, auth_code)
            IN IF e2 # {}
               THEN [resp |-> CHOOSE e \in e2 : TRUE, codes |-> auth_codes]
               ELSE [resp |-> TokenResponse(r.client_id, auth_code.scope),
                     codes |-> mark_code_as_used(auth_codes, r.code)]

\* the handler run to completion (it does not await between parsing the form
\* and returning)
token_endpoint_route(r) ==
    /\ UNCHANGED client_side_vars
    /\ nreq < MaxRequests
    /\ LET out == TokenHandler(r)
       IN /\ resp' = out.resp
          /\ auth_codes' = out.codes
          /\ KeysAfterToken(out.resp)
    /\ req' = r
    /\ nreq' = nreq + 1
    /\ UNCHANGED <<clients, wpc, wreq, wresp, now, client_file, boots,
                   held_token, verified>>

----------------------------------------------------------------------------
(* The server handling one request at a time *)

Workers == 1..MaxWorkers

NoRequest == [endpoint |-> "none"]
NoResponse == [status |-> 0]

NoToken == [none |-> TRUE]
NotVerified == [called |-> "none"]

\* StorageManager.__init__ (storage/persistence.py lines 28-36): the file is
\* created with ServersStorage(), which has no server
NoServers == <<>>

\* CallbackServer.__init__ (oauth/browser.py lines 21-25), start_and_wait not
\* yet called
NewCallbackServer ==
    [code |-> NONE, error |-> NONE, event |-> FALSE, waiter |-> "idle",
     result |-> NONE, raised |-> NONE, exchanged |-> NONE, requests |-> {}]

\* MCPClient.__init__ (mcp_client/client.py lines 21-25), nothing called yet
NewMCPClient ==
    [session |-> NONE, _sse_context |-> NONE, _streams |-> NONE,
     connected |-> FALSE, called |-> "none", raised |-> NONE, returned |-> NONE,
     sent |-> <<>>]

\* the first start of the server, with no file on disk
Init ==
    /\ clients = <<>>
    /\ auth_codes = <<>>
    /\ req = NoRequest
    /\ resp = NoResponse
    /\ nreq = 0
    /\ wpc = [w \in Workers |-> "idle"]
    /\ wreq = [w \in Workers |-> NoRequest]
    /\ wresp = [w \in Workers |-> NoResponse]
    /\ now = 0
    /\ key_files = NoKeyFiles
    /\ nkeys = 0
    /\ client_file = {}
    /\ boots = 1
    /\ held_token = NoToken
    /\ verified = NotVerified
    /\ servers_file = NoServers
    /\ callback = NewCallbackServer
    /\ mcp_client = NewMCPClient

Next ==
    \/ \E r \in RegisterRequests : register_endpoint_route(r)
    \/ \E r \in AuthorizeRequests : authorize_endpoint_route(r)
    \/ \E r \in TokenRequests : token_endpoint_route(r)

Spec == Init /\ [][Next]_vars

----------------------------------------------------------------------------
(* Token requests handled by concurrent workers.  A handler is interleaved   *)
(* with the others between its acquisitions of the registry lock:           *)
(* validate_credentials (line 346), get_authorization_code (line 353) and   *)
(* mark_code_as_used (line 397) are three separate critical sections.       *)

ConcRegisterRequests ==
    {r \in RegisterRequests : r.redirect_uris = {"u1", "u2"}}

ConcAuthorizeRequests ==
    AuthorizeFields({"POST"}, {"c1"}, {"u1"}, {NONE},
                    {NoPkce, <<S256("v1"), "S256">>}, {NONE})

ConcTokenRequests ==
    TokenFields({CC}, {"c1"}, {"s1"}, {NONE}, {NONE}, {NONE}, {NONE})
    \cup TokenFields({AC}, {"c1"}, ReqSecrets, Codes, Uris, {"v1", NONE}, {NONE})

\* the request arrives at an idle worker
TokenAccept(w, r) ==
    /\ UNCHANGED client_side_vars
    /\ nreq < MaxRequests
    /\ wpc[w] = "idle"
    /\ wpc' = [wpc EXCEPT ![w] = "validate"]
    /\ wreq' = [wreq EXCEPT ![w] = r]
    /\ nreq' = nreq + 1
    /\ UNCHANGED <<clients, auth_codes, req, resp, wresp, now, key_files, nkeys,
                   client_file, boots, held_token, verified>>

\* lines 316-350: up to and including validate_credentials
TokenValidate(w) ==
    /\ UNCHANGED client_side_vars
    /\ wpc[w] = "validate"
    /\ LET r == wreq[w]
           e1 == TokenCredentialCheck(r)
       IN IF e1 # {}
          THEN /\ wresp' = [wresp EXCEPT ![w] = CHOOSE e \in e1 : TRUE]
               /\ wpc' = [wpc EXCEPT ![w] = "done"]
          ELSE IF r.grant_type = CC
          THEN /\ wresp' = [wresp EXCEPT ![w] =
                      TokenResponse(r.client_id, Default(r.scope, DEFAULT_SCOPE))]
               /\ wpc' = [wpc EXCEPT ![w] = "done"]
          ELSE /\ wpc' = [wpc EXCEPT ![w] = "get_code"]
               /\ UNCHANGED wresp
    /\ KeysAfterToken(wresp'[w])
    /\ UNCHANGED <<clients, auth_codes, req, resp, nreq, wreq, now, client_file,
                   boots, held_token, verified>>

\* lines 352-358: get_authorization_code; the handler keeps the object found
TokenGetCode(w) ==
    /\ UNCHANGED client_side_vars
    /\ wpc[w] = "get_code"
    /\ IF get_authorization_code(auth_codes, wreq[w].code) = {}
       THEN /\ wresp' = [wresp EXCEPT ![w] = ErrorResponse(400, "invalid_grant")]
            /\ wpc' = [wpc EXCEPT ![w] = "done"]
       ELSE /\ wpc' = [wpc EXCEPT ![w] = "checks"]
            /\ UNCHANGED wresp
    /\ UNCHANGED <<clients, auth_codes, req, resp, nreq, wreq, now, key_files,
                   nkeys, client_file, boots, held_token, verified>>

\* lines 360-424: the checks on the object found, mark_code_as_used, the token
TokenFinish(w) ==
    /\ UNCHANGED client_side_vars
    /\ wpc[w] = "checks"
    /\ LET r == wreq[w]
           auth_code == auth_codes[r.code]
           e2 == CodeChecks(r, auth_code)
       IN IF e2 # {}
          THEN /\ wresp' = [wresp EXCEPT ![w] = CHOOSE e \in e2 : TRUE]
               /\ UNCHANGED auth_codes
          ELSE /\ wresp' = [wresp EXCEPT ![w] =
                      TokenResponse(r.client_id, auth_code.scope)]
               /\ auth_codes' = mark_code_as_used(auth_codes, r.code)
    /\ wpc' = [wpc EXCEPT ![w] = "done"]
    /\ KeysAfterToken(wresp'[w])
    /\ UNCHANGED <<clients, req, resp, nreq, wreq, now, client_file, boots,
                   held_token, verified>>

NextConc ==
    \/ \E r \in ConcRegisterRequests : register_endpoint_route(r)
    \/ \E r \in ConcAuthorizeRequests : authorize_endpoint_route(r)
    \/ \E w \in Workers, r \in ConcTokenRequests : TokenAccept(w, r)
    \/ \E w \in Workers : TokenValidate(w)
    \/ \E w \in Workers : TokenGetCode(w)
    \/ \E w \in Workers : TokenFinish(w)

SpecConc == Init /\ [][NextConc]_vars

----------------------------------------------------------------------------
(* The server in its environment: the clock advances, the process restarts, *)
(* the JWKS endpoint is read and the client keeps the token it was sent.    *)

\* GET /.well-known/jwks.json (main.py, jwks_endpoint_route)
jwks_endpoint_route ==
    /\ UNCHANGED client_side_vars
    /\ nreq < MaxRequests
    /\ LET got == get_or_create_keypair(key_files, nkeys)
           public_key_pem == got.pair[2]
           jwk == public_key_to_jwk(public_key_pem, DEFAULT_KID)
       IN /\ resp' = (IF public_key_pem.kind = "public"
                      THEN [status |-> 200, keys |-> <<jwk>>]
                      ELSE InternalServerError)
          /\ key_files' = got.files
          /\ nkeys' = got.nkeys
    /\ req' = [endpoint |-> "jwks"]
    /\ nreq' = nreq + 1
    /\ UNCHANGED <<clients, auth_codes, wpc, wreq, wresp, now, client_file,
                   boots, held_token, verified>>

\* time passes
Tick ==
    /\ UNCHANGED client_side_vars
    /\ now < MaxTicks * TickSeconds
    /\ now' = now + TickSeconds
    /\ UNCHANGED <<oauth_vars, key_files, nkeys, client_file, boots, held_token,
                   verified>>

\* ClientStorage.__init__ (storage.py lines 60-89) in a new process: the clients
\* are those of the file the step leaves, there is no authorization code
StartProcess ==
    /\ clients' = load_from_file(client_file')
    /\ auth_codes' = <<>>
    /\ resp' = NoResponse
    /\ wpc' = [w \in Workers |-> "idle"]
    /\ wreq' = [w \in Workers |-> NoRequest]
    /\ wresp' = [w \in Workers |-> NoResponse]
    /\ boots' = boots + 1
    /\ UNCHANGED <<nreq, now, held_token, verified>>

\* the process stops and is started again
Restart ==
    /\ UNCHANGED client_side_vars
    /\ boots < MaxBoots
    /\ UNCHANGED <<key_files, nkeys, client_file>>
    /\ req' = [endpoint |-> "start"]
    /\ StartProcess

\* the process dies inside save_keypair (jwt_utils.py lines 69-70), after the
\* private key file is written and before the public one is, and is started again
CrashInSaveKeypair ==
    /\ UNCHANGED client_side_vars
    /\ boots < MaxBoots
    /\ nkeys + 1 < MaxKeys
    /\ load_keypair(key_files) = {}
    /\ key_files' = [key_files EXCEPT !.private = {generate_rsa_keypair(nkeys + 1)[1]}]
    /\ nkeys' = nkeys + 1
    /\ UNCHANGED client_file
    /\ req' = [endpoint |-> "crash"]
    /\ StartProcess

\* the client keeps the access token of the response it received
KeepToken ==
    /\ UNCHANGED client_side_vars
    /\ IsToken(resp)
    /\ held_token # resp.access_token
    /\ held_token' = resp.access_token
    /\ UNCHANGED <<oauth_vars, now, key_files, nkeys, client_file, boots, verified>>

EnvRegisterRequests ==
    {r \in RegisterRequests : r.redirect_uris = {"u1"}}

EnvAuthorizeRequests ==
    AuthorizeFields({"POST"}, {"c1"}, {"u1"}, {NONE}, {NoPkce}, {NONE})

EnvTokenRequests ==
    TokenFields({CC}, {"c1"}, {"s1"}, {NONE}, {NONE}, {NONE}, {NONE})
    \cup TokenFields({AC}, {"c1"}, {"s1"}, Codes, {"u1"}, {NONE}, {NONE})

NextEnv ==
    \/ \E r \in EnvRegisterRequests : register_endpoint_route(r)
    \/ \E r \in EnvAuthorizeRequests : authorize_endpoint_route(r)
    \/ \E r \in EnvTokenRequests : token_endpoint_route(r)
    \/ jwks_endpoint_route
    \/ Tick
    \/ Restart
    \/ CrashInSaveKeypair
    \/ KeepToken

SpecEnv == Init /\ [][NextEnv]_vars

----------------------------------------------------------------------------
(* create_access_token and verify_token called with arguments of every      *)
(* kind, and the tokens presented to validate_token of simple_mcp_server.   *)

Issuers == {ISSUER, "http://other:9000"}
Audiences == {AUDIENCE, "other-server"}
Kids == {DEFAULT_KID, "unknown-key"}
Ttls == {0 - EXPIRES_IN, 0, EXPIRES_IN}
PrivateKeys == {generate_rsa_keypair(k)[1] : k \in 1..MaxKeys}
PublicKeys == {generate_rsa_keypair(k)[2] : k \in 1..MaxKeys}

JwtFields(issuers, audiences, keys, kids, ttls) ==
    [client_id : {"c1"}, issuer : issuers, audience : audiences,
     private_key_pem : keys, kid : kids, expires_delta : ttls,
     scope : {DEFAULT_SCOPE}]

\* the arguments of the token endpoint with every lifetime, and with one of
\* issuer, audience, key and kid replaced
JwtInputs ==
    JwtFields({ISSUER}, {AUDIENCE}, {generate_rsa_keypair(1)[1]}, {DEFAULT_KID}, Ttls)
    \cup JwtFields(Issuers, {AUDIENCE}, {generate_rsa_keypair(1)[1]}, {DEFAULT_KID}, {EXPIRES_IN})
    \cup JwtFields({ISSUER}, Audiences, {generate_rsa_keypair(1)[1]}, {DEFAULT_KID}, {EXPIRES_IN})
    \cup JwtFields({ISSUER}, {AUDIENCE}, PrivateKeys, {DEFAULT_KID}, {EXPIRES_IN})
    \cup JwtFields({ISSUER}, {AUDIENCE}, {generate_rsa_keypair(1)[1]}, Kids, {EXPIRES_IN})

\* the expectations of the verifier: those of the server, or one replaced
VerifyInputs ==
    [public_key_pem : {generate_rsa_keypair(1)[2]}, issuer : Issuers,
     audience : {AUDIENCE}]
    \cup [public_key_pem : {generate_rsa_keypair(1)[2]}, issuer : {ISSUER},
          audience : Audiences]
    \cup [public_key_pem : PublicKeys, issuer : {ISSUER}, audience : {AUDIENCE}]

SimpleSettings ==
    {Settings("secret", "http://localhost:8000", 60),
     Settings("other-secret", "http://localhost:8000", 60),
     Settings("secret", "http://other:9000", 60),
     Settings("secret", "http://localhost:8000", 0)}

\* a token is made by create_access_token
JwtIssue(i) ==
    /\ UNCHANGED client_side_vars
    /\ nreq < MaxTokens
    /\ held_token' = create_access_token(i.client_id, i.issuer, i.audience,
                          i.private_key_pem, i.kid, i.expires_delta, i.scope)
    /\ req' = [endpoint |-> "create_access_token", args |-> i]
    /\ nreq' = nreq + 1
    /\ UNCHANGED <<clients, auth_codes, resp, wpc, wreq, wresp, now, key_files, nkeys,
                   client_file, boots, verified>>

\* a token is made by create_access_token of simple_mcp_server
SimpleIssue(settings) ==
    /\ UNCHANGED client_side_vars
    /\ nreq < MaxTokens
    /\ held_token' = simple_create_access_token(settings, "c1")
    /\ req' = [endpoint |-> "simple_create_access_token", args |-> settings]
    /\ nreq' = nreq + 1
    /\ UNCHANGED <<clients, auth_codes, resp, wpc, wreq, wresp, now, key_files, nkeys,
                   client_file, boots, verified>>

\* the bearer of a token changes its subject and keeps its signature
JwtTamper ==
    /\ UNCHANGED client_side_vars
    /\ "claims" \in DOMAIN held_token
    /\ held_token.claims.sub = "c1"
    /\ held_token' = [held_token EXCEPT !.claims.sub = "c2"]
    /\ req' = [endpoint |-> "tamper"]
    /\ UNCHANGED <<clients, auth_codes, resp, nreq, wpc, wreq, wresp, now, key_files,
                   nkeys, client_file, boots, verified>>

\* the text presented is no token
JwtGarbage ==
    /\ UNCHANGED client_side_vars
    /\ held_token # MalformedToken
    /\ held_token' = MalformedToken
    /\ req' = [endpoint |-> "garbage"]
    /\ UNCHANGED <<clients, auth_codes, resp, nreq, wpc, wreq, wresp, now, key_files,
                   nkeys, client_file, boots, verified>>

\* the call made before and its outcome
Before == [called |-> verified.called,
           outcome |-> IF verified = NotVerified THEN [ok |-> TRUE]
                       ELSE verified.outcome]

\* verify_token is called on the token
JwtVerify(v) ==
    /\ UNCHANGED client_side_vars
    /\ held_token # NoToken
    /\ verified' = [called |-> "verify_token", token |-> held_token, at |-> now,
                    expected |-> v,
                    outcome |-> verify_token(held_token, v.public_key_pem,
                                             v.issuer, v.audience),
                    before |-> Before]
    /\ UNCHANGED <<oauth_vars, now, key_files, nkeys, client_file, boots, held_token>>

\* validate_token of simple_mcp_server is called on the token
JwtValidate(settings) ==
    /\ UNCHANGED client_side_vars
    /\ held_token # NoToken
    /\ verified' = [called |-> "validate_token", token |-> held_token, at |-> now,
                    expected |-> settings,
                    outcome |-> validate_token(settings, held_token),
                    before |-> Before]
    /\ UNCHANGED <<oauth_vars, now, key_files, nkeys, client_file, boots, held_token>>

NextJwt ==
    \/ \E i \in JwtInputs : JwtIssue(i)
    \/ \E settings \in SimpleSettings : SimpleIssue(settings)
    \/ JwtTamper
    \/ JwtGarbage
    \/ \E v \in VerifyInputs : JwtVerify(v)
    \/ \E settings \in {Settings("secret", "http://localhost:8000", 60)} : JwtValidate(settings)
    \/ Tick

SpecJwt == Init /\ [][NextJwt]_vars

----------------------------------------------------------------------------
(* The registry file and the key files when a write fails or the process    *)
(* dies: _save_to_file prints the exception and returns (storage.py lines   *)
(* 106-107), save_keypair lets it through.                                  *)

\* what a write that did not finish leaves of a PEM text
TruncatedPem == [kind |-> "truncated", n |-> 0, e |-> 0]

\* how save_keypair ends: both files written, or the write of the private or
\* of the public key file fails, before or after the file is opened
KeyIoOutcomes ==
    {"ok", "private_before_open", "private_after_open", "public_before_open",
     "public_after_open"}

\* save_keypair (jwt_utils.py lines 65-73): the files it leaves and whether it
\* raised
save_keypair_io(files, private_key_pem, public_key_pem, io) ==
    CASE io = "ok" ->
            [raised |-> FALSE, files |-> save_keypair(private_key_pem, public_key_pem)]
      [] io = "private_before_open" ->
            [raised |-> TRUE, files |-> files]
      [] io = "private_after_open" ->
            [raised |-> TRUE, files |-> [files EXCEPT !.private = {TruncatedPem}]]
      [] io = "public_before_open" ->
            [raised |-> TRUE, files |-> [files EXCEPT !.private = {private_key_pem}]]
      [] OTHER ->
            [raised |-> TRUE,
             files |-> [private |-> {private_key_pem}, public |-> {TruncatedPem}]]

\* get_or_create_keypair (jwt_utils.py lines 110-117) when save_keypair ends
\* as io says: only FileNotFoundError of load_keypair is caught
get_or_create_keypair_io(files, k, io) ==
    LET loaded == load_keypair(files)
        pair == generate_rsa_keypair(k + 1)
        saved == save_keypair_io(files, pair[1], pair[2], io)
    IN IF loaded # {}
       THEN [raised |-> FALSE, pair |-> CHOOSE l \in loaded : TRUE,
             files |-> files, nkeys |-> k]
       ELSE [raised |-> saved.raised, pair |-> pair, files |-> saved.files,
             nkeys |-> k + 1]

\* POST /register when the write of the file fails: create_client stores the
\* client, _save_to_file swallows the exception, the handler answers as ever
RegisterIoFailure(r, io) ==
    /\ UNCHANGED client_side_vars
    /\ nreq < MaxRequests
    /\ Cardinality(DOMAIN clients) < MaxClients
    /\ io # "ok"
    /\ LET n == Cardinality(DOMAIN clients) + 1
           client_id == ClientIdPool[n]
           client_secret == SecretPool[n]
           redirect_uris == r.redirect_uris
           grant_types == IF r.grant_types = {} THEN {CC} ELSE r.grant_types
           client == OAuthClient(client_id, client_secret, r.client_name,
                                 redirect_uris, grant_types)
       IN /\ clients' = create_client(clients, client)
          /\ client_file' = write_text(client_file, json_dumps(clients'), io)
          /\ resp' = [status |-> 200, client_id |-> client.client_id,
                      client_secret |-> client.client_secret,
                      client_name |-> client.client_name,
                      redirect_uris |-> client.redirect_uris,
                      grant_types |-> client.grant_types]
    /\ req' = [endpoint |-> "register", client_name |-> r.client_name,
               redirect_uris |-> r.redirect_uris, grant_types |-> r.grant_types,
               io |-> io]
    /\ nreq' = nreq + 1
    /\ UNCHANGED <<auth_codes, wpc, wreq, wresp, now, key_files, nkeys, boots,
                   held_token, verified>>

\* where the process dies in create_client (storage.py lines 141-143): with the
\* client in the map and the file not yet opened, with the file opened and not
\* yet written, or with the file written
CrashPoints == {"before_open", "after_open", "after_write"}

\* the process dies in create_client and is started again
CrashInCreateClient(r, at) ==
    /\ UNCHANGED client_side_vars
    /\ boots < MaxBoots
    /\ Cardinality(DOMAIN clients) < MaxClients
    /\ LET n == Cardinality(DOMAIN clients) + 1
           grant_types == IF r.grant_types = {} THEN {CC} ELSE r.grant_types
           client == OAuthClient(ClientIdPool[n], SecretPool[n], r.client_name,
                                 r.redirect_uris, grant_types)
           text == json_dumps(create_client(clients, client))
       IN client_file' = (CASE at = "before_open" -> client_file
                            [] at = "after_open" ->
                                   write_text(client_file, text, "fail_after_open")
                            [] OTHER -> write_text(client_file, text, "ok"))
    /\ UNCHANGED <<key_files, nkeys>>
    /\ req' = [endpoint |-> "crash"]
    /\ StartProcess

\* GET /.well-known/jwks.json when save_keypair raises: the exception leaves
\* the handler
JwksKeyIoFailure(io) ==
    /\ UNCHANGED client_side_vars
    /\ nreq < MaxRequests
    /\ nkeys < MaxKeys
    /\ io # "ok"
    /\ load_keypair(key_files) = {}
    /\ LET got == get_or_create_keypair_io(key_files, nkeys, io)
       IN /\ key_files' = got.files
          /\ nkeys' = got.nkeys
    /\ resp' = InternalServerError
    /\ req' = [endpoint |-> "jwks", io |-> io]
    /\ nreq' = nreq + 1
    /\ UNCHANGED <<clients, auth_codes, wpc, wreq, wresp, now, client_file,
                   boots, held_token, verified>>

\* POST /oauth/token when save_keypair raises at line 407: the request passed
\* every check, a code it presented is marked used, the exception leaves the
\* handler
TokenKeyIoFailure(r, io) ==
    /\ UNCHANGED client_side_vars
    /\ nreq < MaxRequests
    /\ nkeys < MaxKeys
    /\ io # "ok"
    /\ load_keypair(key_files) = {}
    /\ LET out == TokenHandler(r)
           got == get_or_create_keypair_io(key_files, nkeys, io)
       IN /\ IsToken(out.resp)
          /\ auth_codes' = out.codes
          /\ key_files' = got.files
          /\ nkeys' = got.nkeys
    /\ resp' = InternalServerError
    /\ req' = [endpoint |-> "token", grant_type |-> r.grant_type,
               client_id |-> r.client_id, client_secret |-> r.client_secret,
               code |-> r.code, redirect_uri |-> r.redirect_uri,
               code_verifier |-> r.code_verifier, scope |-> r.scope, io |-> io]
    /\ nreq' = nreq + 1
    /\ UNCHANGED <<clients, wpc, wreq, wresp, now, client_file, boots,
                   held_token, verified>>

StoreRegisterRequests ==
    {r \in RegisterRequests : r.redirect_uris = {"u1"}}

StoreAuthorizeRequests ==
    AuthorizeFields({"POST"}, {"c1"}, {"u1"}, {NONE}, {NoPkce}, {NONE})

StoreTokenRequests ==
    TokenFields({CC}, {"c1"}, {"s1"}, {NONE}, {NONE}, {NONE}, {NONE})
    \cup TokenFields({AC}, {"c1"}, {"s1"}, Codes, {"u1"}, {NONE}, {NONE})

NextStore ==
    \/ \E r \in StoreRegisterRequests : register_endpoint_route(r)
    \/ \E r \in StoreRegisterRequests, io \in IoOutcomes : RegisterIoFailure(r, io)
    \/ \E r \in StoreRegisterRequests, at \in CrashPoints : CrashInCreateClient(r, at)
    \/ \E r \in StoreAuthorizeRequests : authorize_endpoint_route(r)
    \/ \E r \in StoreTokenRequests : token_endpoint_route(r)
    \/ \E r \in StoreTokenRequests, io \in KeyIoOutcomes : TokenKeyIoFailure(r, io)
    \/ jwks_endpoint_route
    \/ \E io \in KeyIoOutcomes : JwksKeyIoFailure(io)
    \/ Restart

SpecStore == Init /\ [][NextStore]_vars

----------------------------------------------------------------------------
(* create_client called by concurrent threads (storage.py lines 131-145).   *)
(* The OAuthClient is built before the lock is taken; the assignment to     *)
(* the map and _save_to_file, which builds the dictionary, opens the file   *)
(* and writes it, run inside `with self._lock`.                             *)

\* the positions of a thread at which it holds self._lock
InLock == {"snapshot", "open", "write", "release"}

\* mutant: the map and the file are touched without the lock
MutNoLock(w) == TRUE

\* a thread that reads the map or works on the codes, which is no worker
OtherThread == 0

\* threading.Lock: thread w can take the lock when no other thread holds it
LockFree(w) == \A v \in Workers \ {w} : wpc[v] \notin InLock

\* the client thread w is about to store: its uuid4 and its secret are its own
ClientOf(w) ==
    LET r == wreq[w]
        grant_types == IF r.grant_types = {} THEN {CC} ELSE r.grant_types
    IN OAuthClient(ClientIdPool[w], SecretPool[w], r.client_name,
                   r.redirect_uris, grant_types)

\* lines 131-139: the thread builds the client
CreateClientBegin(w, r) ==
    /\ UNCHANGED client_side_vars
    /\ wpc[w] = "idle"
    /\ wpc' = [wpc EXCEPT ![w] = "acquire"]
    /\ wreq' = [wreq EXCEPT ![w] = r]
    /\ UNCHANGED <<clients, auth_codes, req, resp, nreq, wresp, now, key_files,
                   nkeys, client_file, boots, held_token, verified>>

\* lines 141-142: with self._lock: self._clients[client_id] = client
CreateClientStore(w) ==
    /\ UNCHANGED client_side_vars
    /\ wpc[w] = "acquire"
    /\ LockFree(w)
    /\ clients' = create_client(clients, ClientOf(w))
    /\ wpc' = [wpc EXCEPT ![w] = "snapshot"]
    /\ UNCHANGED <<auth_codes, req, resp, nreq, wreq, wresp, now, key_files,
                   nkeys, client_file, boots, held_token, verified>>

\* _save_to_file lines 101-104: the dictionary of the clients of the map
SaveSnapshot(w) ==
    /\ UNCHANGED client_side_vars
    /\ wpc[w] = "snapshot"
    /\ wresp' = [wresp EXCEPT ![w] = [status |-> 0, data |-> clients]]
    /\ wpc' = [wpc EXCEPT ![w] = "open"]
    /\ UNCHANGED <<clients, auth_codes, req, resp, nreq, wreq, now, key_files,
                   nkeys, client_file, boots, held_token, verified>>

\* _save_to_file line 105: write_text opens the file, which empties it
SaveOpen(w) ==
    /\ UNCHANGED client_side_vars
    /\ wpc[w] = "open"
    /\ client_file' = write_text(client_file, json_dumps(wresp[w].data),
                                 "fail_after_open")
    /\ wpc' = [wpc EXCEPT ![w] = "write"]
    /\ UNCHANGED <<clients, auth_codes, req, resp, nreq, wreq, wresp, now,
                   key_files, nkeys, boots, held_token, verified>>

\* _save_to_file line 105: write_text writes the text and closes the file
SaveWrite(w) ==
    /\ UNCHANGED client_side_vars
    /\ wpc[w] = "write"
    /\ client_file' = write_text(client_file, json_dumps(wresp[w].data), "ok")
    /\ wpc' = [wpc EXCEPT ![w] = "release"]
    /\ UNCHANGED <<clients, auth_codes, req, resp, nreq, wreq, wresp, now,
                   key_files, nkeys, boots, held_token, verified>>

\* lines 143-145: the lock is released and the client returned
CreateClientReturn(w) ==
    /\ UNCHANGED client_side_vars
    /\ wpc[w] = "release"
    /\ wpc' = [wpc EXCEPT ![w] = "done"]
    /\ wresp' = [wresp EXCEPT ![w] = [status |-> 200, client |-> ClientOf(w)]]
    /\ UNCHANGED <<clients, auth_codes, req, resp, nreq, wreq, now, key_files,
                   nkeys, client_file, boots, held_token, verified>>

\* get_client (lines 156-157) called by a reader thread, with the lock
LockedGetClient(client_id) ==
    /\ UNCHANGED client_side_vars
    /\ LockFree(OtherThread)
    /\ req' = [endpoint |-> "get_client", client_id |-> client_id]
    /\ resp' = [status |-> 0, client |-> get_client(client_id)]
    /\ UNCHANGED <<clients, auth_codes, nreq, wpc, wreq, wresp, now, key_files,
                   nkeys, client_file, boots, held_token, verified>>

\* store_authorization_code (lines 233-234) called by another thread, with
\* the lock
LockedStoreCode ==
    /\ UNCHANGED client_side_vars
    /\ LockFree(OtherThread)
    /\ Cardinality(DOMAIN auth_codes) < MaxCodes
    /\ auth_codes' = store_authorization_code(auth_codes,
           AuthorizationCode(CodePool[Cardinality(DOMAIN auth_codes) + 1],
                             ClientIdPool[1], "u1", NONE, "plain", DEFAULT_SCOPE))
    /\ req' = [endpoint |-> "store_authorization_code"]
    /\ resp' = NoResponse
    /\ UNCHANGED <<clients, nreq, wpc, wreq, wresp, now, key_files, nkeys,
                   client_file, boots, held_token, verified>>

\* mark_code_as_used (lines 262-267) called by another thread, with the lock
LockedMarkCode(code) ==
    /\ UNCHANGED client_side_vars
    /\ LockFree(OtherThread)
    /\ get_authorization_code(auth_codes, code) # {}
    /\ auth_codes' = mark_code_as_used(auth_codes, code)
    /\ req' = [endpoint |-> "mark_code_as_used", code |-> code]
    /\ resp' = NoResponse
    /\ UNCHANGED <<clients, nreq, wpc, wreq, wresp, now, key_files, nkeys,
                   client_file, boots, held_token, verified>>

NextLock ==
    \/ \E w \in Workers, r \in RegisterRequests : CreateClientBegin(w, r)
    \/ \E w \in Workers : CreateClientStore(w)
    \/ \E w \in Workers : SaveSnapshot(w)
    \/ \E w \in Workers : SaveOpen(w)
    \/ \E w \in Workers : SaveWrite(w)
    \/ \E w \in Workers : CreateClientReturn(w)
    \/ \E client_id \in ReqClientIds : LockedGetClient(client_id)
    \/ LockedStoreCode
    \/ \E code \in Codes : LockedMarkCode(code)

SpecLock == Init /\ [][NextLock]_vars

----------------------------------------------------------------------------
(* The tool endpoints of simple_mcp_server (server/main.py lines 306-356),  *)
(* protected by the dependency validate_token behind HTTPBearer().          *)

\* the settings the simple server runs with
ServerSettings == Settings("secret", "http://localhost:8000", 60)

\* TOOLS (server/mcp/tools.py): the parameters of each handler, required and
\* accepted
TOOLS ==
    [get_joke |-> [name |-> "get_joke", required |-> {}, accepted |-> {}],
     save_joke |-> [name |-> "save_joke", required |-> {"joke"},
                    accepted |-> {"joke", "category"}]]

\* HTTPBearer(): a request without an Authorization header is refused with 403
\* before the dependency runs
HTTPBearer(credentials) ==
    IF credentials = NoToken
    THEN {[status |-> 403, detail |-> "Not authenticated", ran |-> NONE]}
    ELSE {}

\* the refusal of the request by HTTPBearer or by validate_token, if any
Depends(credentials) ==
    IF HTTPBearer(credentials) # {}
    THEN HTTPBearer(credentials)
    ELSE LET token_claims == validate_token(ServerSettings, credentials)
         IN IF token_claims.ok
            THEN {}
            ELSE {[status |-> 401, detail |-> token_claims.detail, ran |-> NONE]}

\* the requests of the tool endpoints: with no credentials or with the token
\* the client holds, naming a tool or not, with arguments
ToolNames == DOMAIN TOOLS \cup {"nonexistent_tool"}
ToolArguments == {{}, {"joke"}, {"text"}}

\* the Authorization header of a request: the token the client holds, or none
Bearer(with_token) == IF with_token THEN held_token ELSE NoToken

\* GET /mcp/v1/tools/list
list_tools(with_token) ==
    /\ UNCHANGED client_side_vars
    /\ req' = [endpoint |-> "tools/list", credentials |-> Bearer(with_token)]
    /\ LET refused == Depends(Bearer(with_token))
       IN resp' = IF refused # {}
                  THEN CHOOSE e \in refused : TRUE
                  ELSE [status |-> 200, tools |-> {TOOLS[t].name : t \in DOMAIN TOOLS},
                        ran |-> NONE]
    /\ UNCHANGED <<clients, auth_codes, nreq, wpc, wreq, wresp, now, key_files,
                   nkeys, client_file, boots, held_token, verified>>

\* POST /mcp/v1/tools/call: the handler of the tool is called with the
\* arguments; a TypeError of the call is answered 400
call_tool(with_token, name, arguments) ==
    /\ UNCHANGED client_side_vars
    /\ req' = [endpoint |-> "tools/call", credentials |-> Bearer(with_token),
               name |-> name, arguments |-> arguments]
    /\ LET refused == Depends(Bearer(with_token))
       IN resp' = IF refused # {}
                  THEN CHOOSE e \in refused : TRUE
                  ELSE IF name \notin DOMAIN TOOLS
                  THEN [status |-> 404, detail |-> "not found", ran |-> NONE]
                  ELSE IF TOOLS[name].required \subseteq arguments
                          /\ arguments \subseteq TOOLS[name].accepted
                  THEN [status |-> 200, content |-> name, ran |-> name]
                  ELSE [status |-> 400, detail |-> "Invalid arguments", ran |-> NONE]
    /\ UNCHANGED <<clients, auth_codes, nreq, wpc, wreq, wresp, now, key_files,
                   nkeys, client_file, boots, held_token, verified>>

NextTools ==
    \/ \E settings \in SimpleSettings : SimpleIssue(settings)
    \/ JwtTamper
    \/ JwtGarbage
    \/ Tick
    \/ \E with_token \in BOOLEAN : list_tools(with_token)
    \/ \E with_token \in BOOLEAN, name \in ToolNames, arguments \in ToolArguments :
          call_tool(with_token, name, arguments)

SpecTools == Init /\ [][NextTools]_vars

----------------------------------------------------------------------------
(* StorageManager of dynamic_mcp_client (storage/persistence.py) called by  *)
(* concurrent threads.  _read_storage and _write_storage each take the lock *)
(* for their own duration; save_server and delete_server call one and then  *)
(* the other.  The file is the list of the servers of ServersStorage.       *)

\* the server thread w works on: each thread has a server of its own
ServerIdPool == <<"srv1", "srv2", "srv3", "srv4">>
ServerIdOf(w) == ServerIdPool[w]
ServerNames == {"a", "b"}

\* RegisteredServer(id=..., name=...)
RegisteredServer(id, name) == [id |-> id, name |-> name]

\* a list without its i-th element
RemoveAt(servers, i) ==
    SubSeq(servers, 1, i - 1) \o SubSeq(servers, i + 1, Len(servers))

\* ServersStorage.get_server: the position of the first server of the id,
\* 0 when there is none
get_server(servers, server_id) ==
    IF \E i \in 1..Len(servers) : servers[i].id = server_id
    THEN CHOOSE i \in 1..Len(servers) :
            /\ servers[i].id = server_id
            /\ \A j \in 1..(i - 1) : servers[j].id # server_id
    ELSE 0

\* list.remove(x): the list without its first element equal to x
list_remove(servers, x) ==
    IF \E i \in 1..Len(servers) : servers[i] = x
    THEN RemoveAt(servers, CHOOSE i \in 1..Len(servers) :
                               /\ servers[i] = x
                               /\ \A j \in 1..(i - 1) : servers[j] # x)
    ELSE servers

\* mutant: the server is appended whether or not the list holds one of its id
MutAppendOnly(storage, server) == Append(storage, server)

\* ServersStorage.add_or_update_server: the first server of the id, if any,
\* is removed, and the server is appended
add_or_update_server(storage, server) ==
    LET existing == get_server(storage, server.id)
    IN IF existing # 0
       THEN Append(list_remove(storage, storage[existing]), server)
       ELSE Append(storage, server)

\* ServersStorage.delete_server: the list it leaves and what it returns
delete_server(storage, server_id) ==
    LET server == get_server(storage, server_id)
    IN IF server # 0
       THEN [servers |-> list_remove(storage, storage[server]), returned |-> TRUE]
       ELSE [servers |-> storage, returned |-> FALSE]

\* a thread calls save_server(server) or delete_server(server_id)
StorageCall(w, op, name) ==
    /\ UNCHANGED <<callback, mcp_client, servers_file>>
    /\ nreq < MaxRequests
    /\ wpc[w] \in {"idle", "done"}
    /\ wpc' = [wpc EXCEPT ![w] = "read"]
    /\ wreq' = [wreq EXCEPT ![w] =
                   [endpoint |-> op, server |-> RegisteredServer(ServerIdOf(w), name)]]
    /\ wresp' = [wresp EXCEPT ![w] = NoResponse]
    /\ nreq' = nreq + 1
    /\ UNCHANGED <<clients, auth_codes, req, resp, now, key_files, nkeys,
                   client_file, boots, held_token, verified>>

\* lines 74 and 80: storage = self._read_storage(), under the lock
ReadStorage(w) ==
    /\ UNCHANGED <<callback, mcp_client, servers_file>>
    /\ wpc[w] = "read"
    /\ wresp' = [wresp EXCEPT ![w] = [status |-> 0, storage |-> servers_file]]
    /\ wpc' = [wpc EXCEPT ![w] = "write"]
    /\ UNCHANGED <<clients, auth_codes, req, resp, nreq, wreq, now, key_files,
                   nkeys, client_file, boots, held_token, verified>>

\* lines 75-76 and 81-84: the thread changes the storage it read and writes
\* it, under the lock; delete_server writes only when it found the server
WriteStorage(w) ==
    /\ UNCHANGED <<callback, mcp_client>>
    /\ wpc[w] = "write"
    /\ LET storage == wresp[w].storage
           server == wreq[w].server
       IN IF wreq[w].endpoint = "save_server"
          THEN /\ servers_file' = add_or_update_server(storage, server)
               /\ wresp' = [wresp EXCEPT ![w] = [status |-> 200, returned |-> NONE]]
          ELSE IF delete_server(storage, server.id).returned
          THEN /\ servers_file' = delete_server(storage, server.id).servers
               /\ wresp' = [wresp EXCEPT ![w] = [status |-> 200, returned |-> "True"]]
          ELSE /\ UNCHANGED servers_file
               /\ wresp' = [wresp EXCEPT ![w] = [status |-> 200, returned |-> "False"]]
    /\ wpc' = [wpc EXCEPT ![w] = "done"]
    /\ UNCHANGED <<clients, auth_codes, req, resp, nreq, wreq, now, key_files,
                   nkeys, client_file, boots, held_token, verified>>

NextServers ==
    \/ \E w \in Workers, op \in {"save_server", "delete_server"}, name \in ServerNames :
          StorageCall(w, op, name)
    \/ \E w \in Workers : ReadStorage(w)
    \/ \E w \in Workers : WriteStorage(w)

SpecServers == Init /\ [][NextServers]_vars

----------------------------------------------------------------------------
(* The dynamic client's callback server (dynamic_mcp_client/oauth/browser.py):
   connect_server starts CallbackServer.start_and_wait, the browser (or
   anything that can reach localhost:8080) sends callback requests, and the
   code start_and_wait returns goes to the token exchange.  callback holds
   the object's fields (code, error, event), the position of start_and_wait
   (waiter), what it returned or raised, the code handed to the exchange,
   and the requests the handler has received. *)

\* the callback requests one run receives
MaxCallbacks == 3

\* state = secrets.token_urlsafe(16) (web/app.py line 126), given to
\* CallbackServer as expected_state
expected_state == "state1"

\* the query parameters of a callback request; NONE is a parameter that is
\* absent, "" one that is present and empty
CallbackCodes == {NONE, "", "code1", "code2"}
CallbackStates == {NONE, "state1", "state2"}
CallbackErrors == {NONE, "", "access_denied"}

\* Python's truth value of an Optional[str]: None and "" are false
Truthy(s) == s \notin {NONE, ""}

\* line 45: f"{error}: {error_description}", error_description defaulting to
\* "Unknown error" (line 41)
ErrorText(error) ==
    IF error = "access_denied" THEN "access_denied: Unknown error"
    ELSE "error: Unknown error"

\* a handler that skips the state check of lines 63-79
MutNoStateCheck(self, code, state, error) ==
    IF Truthy(error)
    THEN [self EXCEPT !.error = ErrorText(error), !.event = TRUE]
    ELSE IF ~Truthy(code)
    THEN [self EXCEPT !.error = "No authorization code received", !.event = TRUE]
    ELSE [self EXCEPT !.code = code, !.event = TRUE]

\* CallbackServer.callback_handler (lines 27-118): the object after the
\* handler has run on the request's code, state and error
callback_handler(self, code, state, error) ==
    IF Truthy(error)
    THEN [self EXCEPT !.error = ErrorText(error), !.event = TRUE]
    ELSE IF state # expected_state
    THEN [self EXCEPT !.error = "Invalid state parameter (possible CSRF attack)",
                      !.event = TRUE]
    ELSE IF ~Truthy(code)
    THEN [self EXCEPT !.error = "No authorization code received", !.event = TRUE]
    ELSE [self EXCEPT !.code = code, !.event = TRUE]

\* everything but the callback server
not_callback_vars ==
    <<clients, auth_codes, req, resp, nreq, wpc, wreq, wresp, now, key_files,
      nkeys, client_file, boots, held_token, verified, servers_file, mcp_client>>

\* start_and_wait, lines 133-139: the server listens; the task now waits on
\* the event (line 142)
StartAndWait ==
    /\ callback.waiter = "idle"
    /\ callback' = [callback EXCEPT !.waiter = "waiting"]
    /\ UNCHANGED not_callback_vars

\* a callback request arrives while the server listens (from line 139 until
\* runner.cleanup() of line 145 has finished); the handler has no await, so
\* it runs in one step
CallbackRequest(code, state, error) ==
    /\ callback.waiter \in {"waiting", "cleanup"}
    /\ LET q == [code |-> code, state |-> state, error |-> error]
       IN /\ Cardinality(callback.requests \cup {q}) <= MaxCallbacks
          /\ callback' = [callback_handler(callback, code, state, error)
                             EXCEPT !.requests = @ \cup {q}]
    /\ UNCHANGED not_callback_vars

\* line 142: await self.event.wait() returns once the event is set
EventWait ==
    /\ callback.waiter = "waiting"
    /\ callback.event
    /\ callback' = [callback EXCEPT !.waiter = "cleanup"]
    /\ UNCHANGED not_callback_vars

\* lines 145-154: the server is shut down, then error and code are checked
CleanupAndReturn ==
    /\ callback.waiter = "cleanup"
    /\ callback' =
          IF Truthy(callback.error)
          THEN [callback EXCEPT !.waiter = "raised", !.raised = callback.error]
          ELSE IF ~Truthy(callback.code)
          THEN [callback EXCEPT !.waiter = "raised",
                                !.raised = "No authorization code received"]
          ELSE [callback EXCEPT !.waiter = "returned", !.result = callback.code]
    /\ UNCHANGED not_callback_vars

\* connect_server (web/app.py lines 139-149): the code start_and_wait
\* returned goes to exchange_code_for_token
ExchangeCode ==
    /\ callback.waiter = "returned"
    /\ callback.exchanged = NONE
    /\ callback' = [callback EXCEPT !.exchanged = callback.result]
    /\ UNCHANGED not_callback_vars

NextCallback ==
    \/ StartAndWait
    \/ \E code \in CallbackCodes, state \in CallbackStates, error \in CallbackErrors :
          CallbackRequest(code, state, error)
    \/ EventWait
    \/ CleanupAndReturn
    \/ ExchangeCode

SpecCallback == Init /\ [][NextCallback]_vars

----------------------------------------------------------------------------
(* The dynamic client's MCP client (dynamic_mcp_client/mcp_client/client.py).
   mcp_client holds the object's fields (session, _sse_context, _streams),
   whether a connect() has returned with no disconnect() since (connected),
   the last method called with what it returned or raised, and the last
   request sent on the session. *)

\* where connect() can raise: entering the SSE context (line 52), entering
\* the session (line 59), initialize (line 62); "none" is a connect() that
\* returns
ConnectFailures == {"none", "sse_enter", "session_enter", "initialize"}

\* what a request on a ClientSession gives: a result, or an exception of the
\* mcp library or the transport
SessionOutcomes == {"returned", "Exception"}

\* the tool names and arguments the client is called with
ClientToolNames == {"get_joke", "save_joke"}
ClientToolArguments == {NONE, "joke"}

\* everything but the MCP client
not_mcp_client_vars ==
    <<clients, auth_codes, req, resp, wpc, wreq, wresp, now, key_files,
      nkeys, client_file, boots, held_token, verified, servers_file, callback>>

\* the object after a method that returned value or raised exception
Called(self, method, value, exception) ==
    [self EXCEPT !.called = method, !.returned = value, !.raised = exception]

\* MCPClient.connect (lines 27-63) on a client that is not connected; the
\* assignments before the statement that raises are kept
connect(fail_at) ==
    /\ nreq < MaxRequests
    /\ ~mcp_client.connected
    /\ nreq' = nreq + 1
    /\ mcp_client' =
          IF fail_at = "sse_enter"
          THEN [Called(mcp_client, "connect", NONE, "Exception")
                   EXCEPT !._sse_context = "sse_client"]
          ELSE IF fail_at \in {"session_enter", "initialize"}
          THEN [Called(mcp_client, "connect", NONE, "Exception")
                   EXCEPT !._sse_context = "sse_client", !._streams = "streams",
                          !.session = "ClientSession"]
          ELSE [Called(mcp_client, "connect", "init_result", NONE)
                   EXCEPT !._sse_context = "sse_client", !._streams = "streams",
                          !.session = "ClientSession", !.connected = TRUE]
    /\ UNCHANGED not_mcp_client_vars

\* lines 75-76 and 95-96, then the request on the session (lines 78, 101):
\* the object after the method, sent being what the session was asked
SessionRequest(self, method, sent, outcome) ==
    IF self.session = NONE
    THEN Called(self, method, NONE, "RuntimeError")
    ELSE IF outcome = "returned"
    THEN [Called(self, method, "result", NONE) EXCEPT !.sent = sent]
    ELSE [Called(self, method, NONE, "Exception") EXCEPT !.sent = sent]

\* MCPClient.list_tools (lines 65-79); the name list_tools is the simple
\* server's endpoint
client_list_tools(outcome) ==
    /\ nreq < MaxRequests
    /\ nreq' = nreq + 1
    /\ mcp_client' = SessionRequest(mcp_client, "list_tools", <<>>, outcome)
    /\ UNCHANGED not_mcp_client_vars

\* MCPClient.call_tool (lines 81-102); arguments of None are sent as {}
client_call_tool(tool_name, arguments, outcome) ==
    /\ nreq < MaxRequests
    /\ nreq' = nreq + 1
    /\ mcp_client' =
          SessionRequest(mcp_client, "call_tool",
                         <<tool_name, IF arguments = NONE THEN "{}" ELSE arguments>>,
                         outcome)
    /\ UNCHANGED not_mcp_client_vars

\* lines 106-119: the fields after disconnect(); exceptions of the two
\* __aexit__ calls are swallowed
Disconnected(self) ==
    LET closed == [self EXCEPT !.session = NONE]
    IN IF self._sse_context # NONE /\ self._streams # NONE
       THEN [closed EXCEPT !._sse_context = NONE, !._streams = NONE]
       ELSE closed

\* MCPClient.disconnect (lines 104-119)
disconnect ==
    /\ nreq < MaxRequests
    /\ nreq' = nreq + 1
    /\ mcp_client' = [Called(Disconnected(mcp_client), "disconnect", NONE, NONE)
                         EXCEPT !.connected = FALSE]
    /\ UNCHANGED not_mcp_client_vars

NextMcp ==
    \/ \E fail_at \in ConnectFailures : connect(fail_at)
    \/ \E outcome \in SessionOutcomes : client_list_tools(outcome)
    \/ \E tool_name \in ClientToolNames, arguments \in ClientToolArguments,
          outcome \in SessionOutcomes : client_call_tool(tool_name, arguments, outcome)
    \/ disconnect

SpecMcp == Init /\ [][NextMcp]_vars

----------------------------------------------------------------------------
(* get_or_create_keypair called by requests that run concurrently (threads or
   server processes sharing the keys/ directory).  Nothing serialises the
   calls: load_keypair, generate_rsa_keypair and the two write_text of
   save_keypair are separate steps of a request.  wresp[w].pair holds the
   pair the request has generated or loaded. *)

\* the requests that resolve the keypair: POST /oauth/token (main.py line
\* 407), here a client_credentials request that passed its checks, and GET
\* /.well-known/jwks.json (main.py line 81)
KeyRequests == {[endpoint |-> "token", client_id |-> "c1"], [endpoint |-> "jwks"]}

\* the variables the keypair requests leave alone
not_key_vars ==
    <<clients, auth_codes, req, resp, now, client_file, boots, held_token,
      verified, servers_file, callback, mcp_client>>

\* what the request answers once it holds the pair (main.py lines 408-424
\* and 82-83)
KeyResponse(r, pair) ==
    IF r.endpoint = "token"
    THEN [status |-> 200,
          access_token |-> create_access_token(r.client_id, ISSUER, AUDIENCE,
                               pair[1], DEFAULT_KID, EXPIRES_IN, DEFAULT_SCOPE)]
    ELSE [status |-> 200, keys |-> <<public_key_to_jwk(pair[2], DEFAULT_KID)>>]

\* a request reaches its call of get_or_create_keypair
KeyCall(w, r) ==
    /\ nreq < MaxRequests
    /\ wpc[w] \in {"idle", "done"}
    /\ wpc' = [wpc EXCEPT ![w] = "load"]
    /\ wreq' = [wreq EXCEPT ![w] = r]
    /\ wresp' = [wresp EXCEPT ![w] = NoResponse]
    /\ nreq' = nreq + 1
    /\ UNCHANGED <<key_files, nkeys>>
    /\ UNCHANGED not_key_vars

\* jwt_utils.py line 111: load_keypair returns the pair of the files, or
\* raises FileNotFoundError when either file is missing
KeyLoad(w) ==
    /\ wpc[w] = "load"
    /\ LET loaded == load_keypair(key_files)
       IN IF loaded # {}
          THEN /\ wresp' = [wresp EXCEPT ![w] =
                               KeyResponse(wreq[w], CHOOSE l \in loaded : TRUE)]
               /\ wpc' = [wpc EXCEPT ![w] = "done"]
          ELSE /\ wpc' = [wpc EXCEPT ![w] = "generate"]
               /\ UNCHANGED wresp
    /\ UNCHANGED <<wreq, nreq, key_files, nkeys>>
    /\ UNCHANGED not_key_vars

\* line 114: generate_rsa_keypair()
KeyGenerate(w) ==
    /\ wpc[w] = "generate"
    /\ nkeys < MaxKeys
    /\ nkeys' = nkeys + 1
    /\ wresp' = [wresp EXCEPT ![w] =
                    [status |-> 0, pair |-> generate_rsa_keypair(nkeys + 1)]]
    /\ wpc' = [wpc EXCEPT ![w] = "write_private"]
    /\ UNCHANGED <<wreq, nreq, key_files>>
    /\ UNCHANGED not_key_vars

\* line 69: private_path.write_text(private_key_pem)
KeyWritePrivate(w) ==
    /\ wpc[w] = "write_private"
    /\ key_files' = [key_files EXCEPT !.private = {wresp[w].pair[1]}]
    /\ wpc' = [wpc EXCEPT ![w] = "write_public"]
    /\ UNCHANGED <<wreq, wresp, nreq, nkeys>>
    /\ UNCHANGED not_key_vars

\* line 70: public_path.write_text(public_key_pem); then the pair generated
\* is returned (line 117) and the request answers with it
KeyWritePublic(w) ==
    /\ wpc[w] = "write_public"
    /\ key_files' = [key_files EXCEPT !.public = {wresp[w].pair[2]}]
    /\ wresp' = [wresp EXCEPT ![w] = KeyResponse(wreq[w], wresp[w].pair)]
    /\ wpc' = [wpc EXCEPT ![w] = "done"]
    /\ UNCHANGED <<wreq, nreq, nkeys>>
    /\ UNCHANGED not_key_vars

NextKeys ==
    \/ \E w \in Workers, r \in KeyRequests : KeyCall(w, r)
    \/ \E w \in Workers : KeyLoad(w)
    \/ \E w \in Workers : KeyGenerate(w)
    \/ \E w \in Workers : KeyWritePrivate(w)
    \/ \E w \in Workers : KeyWritePublic(w)

SpecKeys == Init /\ [][NextKeys]_vars

----------------------------------------------------------------------------
(* The key files changed under a running process: an operator removes them
   or puts another pair in their place, between two requests.  The handlers
   call get_or_create_keypair() on every request (main.py lines 81 and 407);
   the module keeps no pair in memory. *)

\* keys/private_key.pem and keys/public_key.pem are deleted
RemoveKeyFiles ==
    /\ load_keypair(key_files) # {}
    /\ nkeys < MaxKeys
    /\ key_files' = NoKeyFiles
    /\ UNCHANGED <<oauth_vars, now, nkeys, client_file, boots, held_token, verified>>
    /\ UNCHANGED client_side_vars

\* the two files are overwritten with a pair generated elsewhere
ReplaceKeyFiles ==
    /\ load_keypair(key_files) # {}
    /\ nkeys < MaxKeys
    /\ LET pair == generate_rsa_keypair(nkeys + 1)
       IN key_files' = save_keypair(pair[1], pair[2])
    /\ nkeys' = nkeys + 1
    /\ UNCHANGED <<oauth_vars, now, client_file, boots, held_token, verified>>
    /\ UNCHANGED client_side_vars

\* client_credentials requests of the first client
CacheTokenRequests ==
    TokenFields({CC}, {"c1"}, {"s1", "s2"}, {NONE}, {NONE}, {NONE}, {NONE})

NextCache ==
    \/ \E r \in ConcRegisterRequests : register_endpoint_route(r)
    \/ \E r \in CacheTokenRequests : token_endpoint_route(r)
    \/ jwks_endpoint_route
    \/ RemoveKeyFiles
    \/ ReplaceKeyFiles
    \/ Restart

SpecCache == Init /\ [][NextCache]_vars

----------------------------------------------------------------------------
(* Register, authorize and token requests handled by concurrent threads, at
   the grain of the locks (oauth/storage.py).  A handler calls get_storage()
   (under the global _storage_lock), then the ClientStorage methods of its
   endpoint one after the other; each method takes self._lock with `with`,
   works on the maps and releases it.  wreq[w].ops is the sequence of the
   methods the handler of thread w has still to call. *)

\* the positions of a thread: waiting for and holding _storage_lock, waiting
\* for and holding self._lock
Busy == {"storage_wait", "storage_held", "lock_wait", "lock_held"}

\* the threads holding _storage_lock, and those holding self._lock
StorageLockHolders == {w \in Workers : wpc[w] = "storage_held"}
LockHolders == {w \in Workers : wpc[w] = "lock_held"}

\* mutant: _save_to_file takes self._lock, which create_client already holds
MutSaveTakesLock(op) == op = "create_client"

\* whether a method takes self._lock again while it holds it: none does;
\* _save_to_file (lines 91-107), called inside the lock by create_client,
\* takes no lock, and validate_credentials calls get_client outside any lock
ReacquiresLock(op) == FALSE

\* the ClientStorage methods the handler of a request calls, in order
\* (main.py lines 287, 130 and 150, 327 or 346, 353, 397)
OpsOf(r) ==
    IF r.endpoint = "register" THEN <<"create_client">>
    ELSE IF r.endpoint = "authorize" THEN <<"get_client", "store_authorization_code">>
    ELSE IF r.grant_type = CC THEN <<"get_client">>
    ELSE <<"get_client", "get_authorization_code", "mark_code_as_used">>

\* the requests of the threads: registrations, approvals by the first
\* client, and exchanges of the first code with its secret and with another
FairRequests ==
    ConcRegisterRequests
    \cup AuthorizeFields({"POST"}, {"c1"}, {"u1"}, {NONE}, {NoPkce}, {NONE})
    \cup TokenFields({AC}, {"c1"}, {"s1", "s2"}, {"k1"}, {"u1"}, {NONE}, {NONE})

\* the requests in flight that will store a client, or a code
InFlight(endpoint) ==
    {w \in Workers : wpc[w] \in Busy /\ wreq[w].endpoint = endpoint}

\* the variables the threads leave alone
not_fair_vars ==
    <<req, resp, now, key_files, nkeys, boots, held_token, verified,
      servers_file, callback, mcp_client>>

\* a request arrives at a thread that handles none
FairAccept(w, r) ==
    /\ nreq < MaxRequests
    /\ wpc[w] \in {"idle", "done"}
    /\ r.endpoint = "register"
       => Cardinality(DOMAIN clients) + Cardinality(InFlight("register")) < MaxClients
    /\ r.endpoint = "authorize"
       => Cardinality(DOMAIN auth_codes) + Cardinality(InFlight("authorize")) < MaxCodes
    /\ wpc' = [wpc EXCEPT ![w] = "storage_wait"]
    /\ wreq' = [wreq EXCEPT ![w] =
                   [x \in DOMAIN r \cup {"ops"} |-> IF x = "ops" THEN OpsOf(r) ELSE r[x]]]
    /\ wresp' = [wresp EXCEPT ![w] = NoResponse]
    /\ nreq' = nreq + 1
    /\ UNCHANGED <<clients, auth_codes, client_file>>
    /\ UNCHANGED not_fair_vars

\* get_storage line 286: with _storage_lock
GetStorageEnter(w) ==
    /\ wpc[w] = "storage_wait"
    /\ StorageLockHolders = {}
    /\ wpc' = [wpc EXCEPT ![w] = "storage_held"]
    /\ UNCHANGED <<clients, auth_codes, client_file, nreq, wreq, wresp>>
    /\ UNCHANGED not_fair_vars

\* get_storage lines 287-289: _storage was created when main.py was
\* imported (line 76), so it is returned, which releases _storage_lock
GetStorageReturn(w) ==
    /\ wpc[w] = "storage_held"
    /\ wpc' = [wpc EXCEPT ![w] = "lock_wait"]
    /\ UNCHANGED <<clients, auth_codes, client_file, nreq, wreq, wresp>>
    /\ UNCHANGED not_fair_vars

\* `with self._lock:` of the method the handler calls next; threading.Lock
\* is not reentrant
LockAcquire(w) ==
    /\ wpc[w] = "lock_wait"
    /\ LockHolders = {}
    /\ wpc' = [wpc EXCEPT ![w] = "lock_held"]
    /\ UNCHANGED <<clients, auth_codes, client_file, nreq, wreq, wresp>>
    /\ UNCHANGED not_fair_vars

\* what the method does to the maps and the file inside the lock, and what
\* the handler does with its result: answer (done) or go on to its next method
LockedOutcome(r, op, io) ==
    LET n == Cardinality(DOMAIN clients) + 1
        client == OAuthClient(ClientIdPool[n], SecretPool[n], r.client_name,
                              r.redirect_uris,
                              IF r.grant_types = {} THEN {CC} ELSE r.grant_types)
        found == get_client(r.client_id)
        got == get_authorization_code(auth_codes, r.code)
        same == [clients |-> clients, codes |-> auth_codes, file |-> client_file]
    IN CASE op = "create_client" ->
               [same EXCEPT !.clients = create_client(clients, client),
                            !.file = write_text(client_file,
                                         json_dumps(create_client(clients, client)), io)]
               @@ [done |-> TRUE, resp |-> [status |-> 200, client_id |-> client.client_id]]
         [] op = "get_client" /\ r.endpoint = "authorize" ->
               same @@ (IF found = {}
                        THEN [done |-> TRUE, resp |-> ErrorResponse(400, "invalid_client")]
                        ELSE IF \E c \in found : r.redirect_uri \notin c.redirect_uris
                        THEN [done |-> TRUE, resp |-> ErrorResponse(400, "invalid_request")]
                        ELSE [done |-> FALSE, resp |-> NoResponse])
         [] op = "get_client" /\ r.endpoint = "token" ->
               same @@ (IF ~\E c \in found : c.client_secret = r.client_secret
                        THEN [done |-> TRUE, resp |-> ErrorResponse(401, "invalid_client")]
                        ELSE IF r.grant_type = CC
                        THEN [done |-> TRUE, resp |-> [status |-> 200]]
                        ELSE [done |-> FALSE, resp |-> NoResponse])
         [] op = "store_authorization_code" ->
               [same EXCEPT !.codes = store_authorization_code(auth_codes,
                     AuthorizationCode(CodePool[Cardinality(DOMAIN auth_codes) + 1],
                                       r.client_id, r.redirect_uri, r.code_challenge,
                                       Default(r.code_challenge_method, "plain"),
                                       Default(r.scope, DEFAULT_SCOPE)))]
               @@ [done |-> TRUE, resp |-> [status |-> 302]]
         [] op = "get_authorization_code" ->
               same @@ (IF got = {}
                        THEN [done |-> TRUE, resp |-> ErrorResponse(400, "invalid_grant")]
                        ELSE IF \E a \in got : CodeChecks(r, a) # {}
                        THEN [done |-> TRUE,
                              resp |-> CHOOSE e \in UNION {CodeChecks(r, a) : a \in got} : TRUE]
                        ELSE [done |-> FALSE, resp |-> NoResponse])
         [] OTHER ->
               [same EXCEPT !.codes = mark_code_as_used(auth_codes, r.code)]
               @@ [done |-> TRUE, resp |-> [status |-> 200]]

\* the body of the method and the end of its `with` block, which releases
\* the lock also when the body raises; io is how the write of the file ends,
\* whose exception _save_to_file swallows
LockedCall(w, io) ==
    /\ wpc[w] = "lock_held"
    /\ ReacquiresLock(Head(wreq[w].ops)) => LockHolders = {}
    /\ LET out == LockedOutcome(wreq[w], Head(wreq[w].ops), io)
       IN /\ clients' = out.clients
          /\ auth_codes' = out.codes
          /\ client_file' = out.file
          /\ wresp' = [wresp EXCEPT ![w] = out.resp]
          /\ wpc' = [wpc EXCEPT ![w] = IF out.done THEN "done" ELSE "lock_wait"]
    /\ wreq' = [wreq EXCEPT ![w].ops = Tail(@)]
    /\ UNCHANGED nreq
    /\ UNCHANGED not_fair_vars

\* the steps of thread w once it has a request
ThreadStep(w) ==
    \/ GetStorageEnter(w)
    \/ GetStorageReturn(w)
    \/ LockAcquire(w)
    \/ \E io \in IoOutcomes : LockedCall(w, io)

NextFair ==
    \/ \E w \in Workers, r \in FairRequests : FairAccept(w, r)
    \/ \E w \in Workers : GetStorageEnter(w)
    \/ \E w \in Workers : GetStorageReturn(w)
    \/ \E w \in Workers : LockAcquire(w)
    \/ \E w \in Workers, io \in IoOutcomes : LockedCall(w, io)

\* every thread that can take a step eventually takes one
SpecFair ==
    /\ Init
    /\ [][NextFair]_vars
    /\ \A w \in Workers : WF_vars(ThreadStep(w))

----------------------------------------------------------------------------
(* Vocabulary of the claims, stated on the state alone *)

\* the request's client is registered and its secret is the stored one
CredentialsMatch(r) ==
    /\ r.client_id \in DOMAIN clients
    /\ clients[r.client_id].client_secret = r.client_secret

\* a code exchange that carries the parameters the grant requires
IsExchange(r) ==
    /\ r.endpoint = "token"
    /\ r.grant_type = AC
    /\ ~Falsy(r.code)
    /\ ~Falsy(r.redirect_uri)

\* the step handles a request
Handled == nreq' = nreq + 1

\* verification of a verifier against a challenge under S256 and plain
Verifies(verifier, challenge, method) ==
    /\ ~Falsy(verifier)
    /\ \/ method = "S256" /\ S256(verifier) = challenge
       \/ method = "plain" /\ verifier = challenge

\* the request's client and redirect_uri are those stored with its code
BoundTo(r, codes) ==
    /\ r.code \in DOMAIN codes
    /\ codes[r.code].client_id = r.client_id
    /\ codes[r.code].redirect_uri = r.redirect_uri

\* the code has no challenge, or the request's verifier verifies against it
PkceSatisfied(r, codes) ==
    \/ codes[r.code].code_challenge = NONE
    \/ Verifies(r.code_verifier, codes[r.code].code_challenge,
                codes[r.code].code_challenge_method)

----------------------------------------------------------------------------
\* what C1 says of one step
C1_Step ==
    /\ (Handled /\ IsExchange(req') /\ CredentialsMatch(req')
        /\ req'.code \in DOMAIN auth_codes /\ auth_codes[req'.code].used)
       => (IsError(resp', 400, "invalid_grant") /\ auth_codes' = auth_codes)
    /\ (Handled /\ req'.endpoint = "token" /\ req'.grant_type = AC /\ IsToken(resp'))
       => (/\ req'.code \in DOMAIN auth_codes
           /\ ~auth_codes[req'.code].used
           /\ auth_codes'[req'.code].used)
    /\ \A c \in DOMAIN auth_codes :
          /\ c \in DOMAIN auth_codes'
          /\ auth_codes[c].used => auth_codes'[c].used
          /\ (~auth_codes[c].used /\ auth_codes'[c].used)
             => (req'.endpoint = "token" /\ req'.code = c /\ IsToken(resp'))

(* C1: once an exchange of a code has succeeded, every later exchange that  *)
(* presents that code (with a redirect_uri and valid client credentials) is *)
(* rejected with invalid_grant (400) and changes nothing; a token is issued *)
(* for a code only by the step that turns its used flag from false to true, *)
(* the flag is set by no other step and never reset: at most one token per  *)
(* code in any sequence of requests.                                        *)
C1_CodeExchangedOnce == [][C1_Step]_vars

\* a retry of an exchanged code has just been rejected
C1_Witness ==
    /\ IsExchange(req)
    /\ CredentialsMatch(req)
    /\ BoundTo(req, auth_codes)
    /\ auth_codes[req.code].used
    /\ IsError(resp, 400, "invalid_grant")

----------------------------------------------------------------------------
\* what C2 says of one step
C2_Step ==
    \A w \in Workers :
        (/\ wpc[w] # "done" /\ wpc'[w] = "done"
         /\ IsExchange(wreq[w])
         /\ CredentialsMatch(wreq[w])
         /\ BoundTo(wreq[w], auth_codes)
         /\ PkceSatisfied(wreq[w], auth_codes))
        => /\ IsToken(wresp'[w]) \/ IsError(wresp'[w], 400, "invalid_grant")
           /\ IsToken(wresp'[w])
              => \A v \in Workers \ {w} :
                    ~(/\ wpc[v] = "done"
                      /\ IsExchange(wreq[v])
                      /\ wreq[v].code = wreq[w].code
                      /\ IsToken(wresp[v]))

(* C2: a concurrent handler that completes an exchange valid for its code   *)
(* obtains a token or fails with invalid_grant, and it obtains a token only *)
(* if no other handler has obtained one for the same code: of the handlers  *)
(* that exchange one code exactly one succeeds.                             *)
C2_ExactlyOneExchange == [][C2_Step]_vars

----------------------------------------------------------------------------
\* what C3 as claimed says of one step
C3_OriginalStep ==
    (Handled /\ IsExchange(req') /\ req'.code \in DOMAIN auth_codes
     /\ ~auth_codes[req'.code].used)
    => /\ ~CredentialsMatch(req') => ~auth_codes'[req'.code].used
       /\ (CredentialsMatch(req') /\ ~IsToken(resp')) => auth_codes'[req'.code].used

(* C3, as claimed: a request with invalid credentials leaves the code       *)
(* unused, and a request with valid credentials and a stored, unused code   *)
(* that is then rejected has consumed the code.                             *)
C3_ConsumedBeforeChecks == [][C3_OriginalStep]_vars

\* the answer the order of checks of the code gives to an exchange: parameters,
\* credentials, code stored and unused, client, redirect_uri, verifier present,
\* verifier matching
C3_Expected(r) ==
    IF Falsy(r.code) \/ Falsy(r.redirect_uri) THEN ErrorResponse(400, "invalid_request")
    ELSE IF ~CredentialsMatch(r) THEN ErrorResponse(401, "invalid_client")
    ELSE IF r.code \notin DOMAIN auth_codes \/ auth_codes[r.code].used
    THEN ErrorResponse(400, "invalid_grant")
    ELSE IF auth_codes[r.code].client_id # r.client_id
    THEN ErrorResponse(400, "invalid_grant")
    ELSE IF auth_codes[r.code].redirect_uri # r.redirect_uri
    THEN ErrorResponse(400, "invalid_grant")
    ELSE IF Falsy(auth_codes[r.code].code_challenge) THEN [status |-> 200]
    ELSE IF Falsy(r.code_verifier) THEN ErrorResponse(400, "invalid_request")
    ELSE IF (IF auth_codes[r.code].code_challenge_method = "S256"
             THEN S256(r.code_verifier) ELSE r.code_verifier)
            # auth_codes[r.code].code_challenge
    THEN ErrorResponse(400, "invalid_grant")
    ELSE [status |-> 200]

\* what C3 as amended says of one step
C3_AmendedStep ==
    (Handled /\ req'.endpoint = "token" /\ req'.grant_type = AC)
    => LET e == C3_Expected(req')
       IN IF e.status = 200
          THEN /\ IsToken(resp')
               /\ auth_codes' = [auth_codes EXCEPT ![req'.code].used = TRUE]
          ELSE /\ resp' = e
               /\ auth_codes' = auth_codes

(* C3, amended: the checks run in the order parameters, credentials, code   *)
(* stored and unused, client, redirect_uri, PKCE, and only then is the code *)
(* marked used and the token issued; the first failing check decides the    *)
(* answer and a rejected request leaves every code as it was.               *)
C3_ChecksBeforeConsume == [][C3_AmendedStep]_vars

\* an exchange with valid credentials has just failed the redirect_uri check
\* and its code is still unused
C3_Witness ==
    /\ IsExchange(req)
    /\ CredentialsMatch(req)
    /\ req.code \in DOMAIN auth_codes
    /\ auth_codes[req.code].client_id = req.client_id
    /\ auth_codes[req.code].redirect_uri # req.redirect_uri
    /\ IsError(resp, 400, "invalid_grant")
    /\ ~auth_codes[req.code].used

----------------------------------------------------------------------------
(* C4: a token issued by a code exchange whose code has a code_challenge    *)
(* (an empty challenge is counted as none here) was requested with a        *)
(* verifier that verifies against the challenge under the stored method:    *)
(* its S256 image equals the challenge for S256, it equals the challenge    *)
(* for plain.                                                               *)
C4_PkceEnforced ==
    (IsExchange(req) /\ IsToken(resp))
    => \/ Falsy(auth_codes[req.code].code_challenge)
       \/ PkceSatisfied(req, auth_codes)

----------------------------------------------------------------------------
(* C5: a token issued by a code exchange goes to the client stored with the *)
(* code, for the redirect_uri stored with it, and its sub is that client;   *)
(* an exchange with valid credentials whose client or redirect_uri differs  *)
(* from the stored one is answered invalid_grant (400).                     *)
C5_BoundToClientAndUri ==
    /\ (req.endpoint = "token" /\ req.grant_type = AC /\ IsToken(resp))
       => /\ BoundTo(req, auth_codes)
          /\ resp.access_token.claims.sub = auth_codes[req.code].client_id
    /\ (IsExchange(req) /\ CredentialsMatch(req) /\ req.code \in DOMAIN auth_codes
        /\ ~BoundTo(req, auth_codes))
       => IsError(resp, 400, "invalid_grant")

\* a registered client has just presented, with its own valid credentials, a
\* code issued to another client
C5_Witness ==
    /\ IsExchange(req)
    /\ CredentialsMatch(req)
    /\ req.code \in DOMAIN auth_codes
    /\ auth_codes[req.code].client_id # req.client_id
    /\ auth_codes[req.code].redirect_uri = req.redirect_uri
    /\ IsError(resp, 400, "invalid_grant")

----------------------------------------------------------------------------
(* C6: for both grant types (requests that carry the parameters the grant   *)
(* requires) a token is issued only to a registered client presenting its   *)
(* stored secret; a wrong secret or an unknown client is answered           *)
(* invalid_client (401) without a token, and a client_credentials request   *)
(* with correct credentials is answered 200 with an access token of type    *)
(* Bearer.                                                                  *)
C6_CredentialsRequired ==
    (req.endpoint = "token" /\ req.grant_type \in {AC, CC})
    => /\ IsToken(resp) => CredentialsMatch(req)
       /\ (~CredentialsMatch(req) /\ (req.grant_type = AC => IsExchange(req)))
          => IsError(resp, 401, "invalid_client")
       /\ (req.grant_type = CC /\ CredentialsMatch(req))
          => (IsToken(resp) /\ resp.token_type = "Bearer"
              /\ resp.access_token.claims.sub = req.client_id)

\* a registered client has just presented a wrong secret and been refused
C6_Witness ==
    /\ req.endpoint = "token"
    /\ req.grant_type = CC
    /\ req.client_id \in DOMAIN clients
    /\ ~CredentialsMatch(req)
    /\ IsError(resp, 401, "invalid_client")

----------------------------------------------------------------------------
\* the client is registered and the URI is one of its registered URIs
C7_Validated(client_id, redirect_uri) ==
    /\ client_id \in DOMAIN clients
    /\ redirect_uri \in clients[client_id].redirect_uris

(* C7: every stored code, and every redirect answered by the authorize      *)
(* endpoint, is for a registered client and one of its registered redirect  *)
(* URIs; an authorize request, GET or POST, whose client_id or redirect_uri *)
(* is missing, unknown or unregistered is answered with an error (400), not *)
(* a redirect.                                                              *)
C7_AuthorizeValidated ==
    /\ \A c \in DOMAIN auth_codes :
          C7_Validated(auth_codes[c].client_id, auth_codes[c].redirect_uri)
    /\ req.endpoint = "authorize"
       => IF C7_Validated(req.client_id, req.redirect_uri)
          THEN resp.status = (IF req.method = "POST" THEN 302 ELSE 200)
          ELSE "error" \in DOMAIN resp /\ resp.status = 400

\* an approval naming a registered client with a URI it did not register has
\* just been refused
C7_Witness ==
    /\ req.endpoint = "authorize"
    /\ req.method = "POST"
    /\ req.client_id \in DOMAIN clients
    /\ req.redirect_uri \in Uris
    /\ req.redirect_uri \notin clients[req.client_id].redirect_uris
    /\ IsError(resp, 400, "invalid_request")

----------------------------------------------------------------------------
\* an exchange that reaches the PKCE check of a code stored with a challenge
C8_ReachesPkce(r) ==
    /\ IsExchange(r)
    /\ CredentialsMatch(r)
    /\ BoundTo(r, auth_codes)
    /\ ~auth_codes[r.code].used

\* the challenge the code computes from a verifier: its S256 image for S256,
\* the verifier itself for every other method
C8_Computed(method, verifier) ==
    IF method = "S256" THEN S256(verifier) ELSE verifier

\* what C8 as claimed says of one step
C8_OriginalStep ==
    (Handled /\ C8_ReachesPkce(req')
     /\ ~Falsy(auth_codes[req'.code].code_challenge)
     /\ ~PkceSatisfied(req', auth_codes))
    => IsError(resp', 400, "invalid_grant")

(* C8, as claimed: an exchange of a code stored with a challenge that       *)
(* carries no verifier, or one that does not verify, fails with             *)
(* invalid_grant (400).                                                     *)
C8_MissingVerifierInvalidGrant == [][C8_OriginalStep]_vars

\* what C8 as amended says of one step
C8_AmendedStep ==
    (Handled /\ C8_ReachesPkce(req')
     /\ ~Falsy(auth_codes[req'.code].code_challenge))
    => LET ac == auth_codes[req'.code]
       IN IF Falsy(req'.code_verifier)
          THEN IsError(resp', 400, "invalid_request")
          ELSE IF C8_Computed(ac.code_challenge_method, req'.code_verifier)
                  # ac.code_challenge
          THEN IsError(resp', 400, "invalid_grant")
          ELSE IsToken(resp')

(* C8, amended: an exchange of a code stored with a non-empty challenge    *)
(* fails with invalid_request (400) when it carries no verifier and with    *)
(* invalid_grant (400) when the challenge computed from its verifier (its   *)
(* S256 transform under S256, the verifier itself under any other stored    *)
(* method) differs from the stored one; otherwise it obtains a token.       *)
C8_PkceFailures == [][C8_AmendedStep]_vars

\* an exchange without a verifier of a code stored with an S256 challenge has
\* just been refused
C8_Witness ==
    /\ IsExchange(req)
    /\ CredentialsMatch(req)
    /\ BoundTo(req, auth_codes)
    /\ auth_codes[req.code].code_challenge = S256("v1")
    /\ req.code_verifier = NONE
    /\ IsError(resp, 400, "invalid_request")
    /\ ~auth_codes[req.code].used

----------------------------------------------------------------------------
(* C9: no stored authorization code has a code_challenge_method other than  *)
(* S256 or plain, an authorize request of a registered client and URI that  *)
(* names another method is answered invalid_request, and no exchange of a   *)
(* code succeeds under another method.                                      *)
C9_MethodsSupported ==
    /\ \A c \in DOMAIN auth_codes :
          auth_codes[c].code_challenge_method \in {"S256", "plain"}
    /\ (req.endpoint = "authorize"
        /\ C7_Validated(req.client_id, req.redirect_uri)
        /\ req.code_challenge_method \notin {NONE, "S256", "plain"})
       => IsError(resp, 400, "invalid_request")
    /\ (IsExchange(req) /\ IsToken(resp))
       => auth_codes[req.code].code_challenge_method \in {"S256", "plain"}

----------------------------------------------------------------------------
\* what C10 says of one step
C10_Step ==
    (Handled /\ C8_ReachesPkce(req')
     /\ auth_codes[req'.code].code_challenge = NONE)
    => (IsToken(resp') /\ auth_codes'[req'.code].used)

(* C10: an exchange with valid credentials, matching client and             *)
(* redirect_uri, of an unused code stored with a null challenge succeeds,   *)
(* with or without a code_verifier and whatever its value.                  *)
C10_NullChallengeSkipsPkce == [][C10_Step]_vars

\* a code stored without a challenge has just been exchanged by a request that
\* carried a verifier
C10_Witness ==
    /\ IsExchange(req)
    /\ BoundTo(req, auth_codes)
    /\ auth_codes[req.code].code_challenge = NONE
    /\ req.code_verifier \in Verifiers
    /\ IsToken(resp)

----------------------------------------------------------------------------
\* the time-to-live the claim is checked with: ten minutes
CODE_TTL == EXPIRES_IN \div 6

\* what C11 says of one step
C11_Step ==
    (Handled /\ IsExchange(req') /\ req'.code \in DOMAIN auth_codes
     /\ now - auth_codes[req'.code].created_at > CODE_TTL)
    => IsError(resp', 400, "invalid_grant")

(* C11: an exchange that presents a stored authorization code created more  *)
(* than the time-to-live ago is answered invalid_grant (400), whether or    *)
(* not the code has been used.                                              *)
C11_ExpiredCodeRejected == [][C11_Step]_vars

----------------------------------------------------------------------------
\* what C12 says of one step
C12_Step ==
    \A r \in TokenBytes :
        LET pair == generate_pkce_pair(r)
        IN (Handled /\ C8_ReachesPkce(req')
            /\ auth_codes[req'.code].code_challenge = pair[2]
            /\ auth_codes[req'.code].code_challenge_method = "S256"
            /\ ~Falsy(req'.code_verifier))
           => IF req'.code_verifier = pair[1]
              THEN IsToken(resp')
              ELSE IsError(resp', 400, "invalid_grant")

(* C12: an exchange that reaches the PKCE check of a code stored with the   *)
(* challenge of a pair made by generate_pkce_pair and the method S256       *)
(* obtains a token when it carries the verifier of that pair and is         *)
(* answered invalid_grant when it carries any other verifier.               *)
C12_GeneratedPairVerifies == [][C12_Step]_vars

\* the verifier of a generated pair has just been accepted against the
\* challenge of the pair
C12_Witness ==
    /\ IsExchange(req)
    /\ IsToken(resp)
    /\ req.code \in DOMAIN auth_codes
    /\ \E r \in TokenBytes :
          /\ auth_codes[req.code].code_challenge = generate_pkce_pair(r)[2]
          /\ auth_codes[req.code].code_challenge_method = "S256"
          /\ req.code_verifier = generate_pkce_pair(r)[1]

----------------------------------------------------------------------------
\* what C13 says of one step
C13_Step ==
    /\ (Handled /\ req'.endpoint = "register")
       => /\ resp'.status = 200
          /\ resp'.client_id \notin DOMAIN clients
          /\ resp'.client_id \in DOMAIN clients'
          /\ clients'[resp'.client_id] =
                [client_id |-> resp'.client_id,
                 client_secret |-> resp'.client_secret,
                 client_name |-> resp'.client_name,
                 redirect_uris |-> resp'.redirect_uris,
                 grant_types |-> resp'.grant_types]
          /\ resp'.client_name = req'.client_name
          /\ resp'.redirect_uris = req'.redirect_uris
    /\ \A id \in DOMAIN clients :
          id \in DOMAIN clients' /\ clients'[id] = clients[id]

(* C13: a registration returns a client_id that no registered client has,   *)
(* lookup of that id then returns the client with exactly the name,         *)
(* redirect URIs, grant types and secret of the response (name and URIs     *)
(* being those requested), and no step changes or removes a registered      *)
(* client.                                                                  *)
C13_RegistrationUniqueStable == [][C13_Step]_vars

\* a second client, with another name and other URIs, has just been registered
C13_Witness ==
    /\ req.endpoint = "register"
    /\ Cardinality(DOMAIN clients) = 2
    /\ \E a, b \in DOMAIN clients :
          /\ a # b
          /\ b = resp.client_id
          /\ clients[a].client_name # clients[b].client_name
          /\ clients[a].redirect_uris # clients[b].redirect_uris

----------------------------------------------------------------------------
\* what C14 says of one step
C14_Step ==
    /\ (Handled /\ req'.endpoint = "authorize" /\ resp'.status = 302)
       => \E c \in DOMAIN auth_codes' \ DOMAIN auth_codes :
             auth_codes'[c].scope =
                (IF req'.scope = NONE THEN "mcp:tools" ELSE req'.scope)
    /\ (Handled /\ req'.endpoint = "token" /\ IsToken(resp'))
       => /\ resp'.access_token.claims.scope = resp'.scope
          /\ req'.grant_type = AC => resp'.scope = auth_codes[req'.code].scope
          /\ req'.grant_type = CC
             => resp'.scope = (IF req'.scope = NONE THEN "mcp:tools" ELSE req'.scope)

(* C14: an approval stores the scope of the authorization request, or       *)
(* mcp:tools when it gave none; the token of a code exchange carries the    *)
(* scope stored with the code whatever scope the token request sends; a     *)
(* client_credentials token carries the requested scope, or mcp:tools when  *)
(* none was sent; the scope of the response is the scope claim of the token.*)
C14_ScopeOfToken == [][C14_Step]_vars

\* a code stored with the scope read has just been exchanged by a request that
\* sent the scope admin
C14_Witness ==
    /\ IsExchange(req)
    /\ req.scope = "admin"
    /\ IsToken(resp)
    /\ auth_codes[req.code].scope = "read"
    /\ resp.scope = "read"

----------------------------------------------------------------------------
(* C15: the redirect of an approval goes to the redirect_uri of the         *)
(* request, one the client registered; read as the client reads it          *)
(* (urlparse, parse_qs) it carries the code stored by the approval as its   *)
(* code and the state of the request, unchanged, as its state; it has no    *)
(* state when the request had none (an empty state is counted as none).     *)
C15_RedirectCarriesCodeAndState ==
    (req.endpoint = "authorize" /\ resp.status = 302)
    => LET url == urlparse(resp.location)
           params == parse_qs(url.query)
       IN /\ url.base = Chars(req.redirect_uri)
          /\ C7_Validated(req.client_id, req.redirect_uri)
          /\ \E c \in DOMAIN auth_codes :
                /\ auth_codes[c].client_id = req.client_id
                /\ QueryValues(params, "code") = <<Chars(c)>>
          /\ IF Falsy(req.state)
             THEN QueryValues(params, "state") = <<>>
             ELSE QueryValues(params, "state") = <<Chars(req.state)>>

----------------------------------------------------------------------------
(* Vocabulary of the claims about keys and tokens *)

\* the bytes a base64url text without padding encodes
RECURSIVE urlsafe_b64decode(_)
urlsafe_b64decode(text) ==
    LET Ix(ch) == (CHOOSE i \in 1..64 : B64Alphabet[i] = ch) - 1
    IN IF Len(text) < 2 THEN <<>>
       ELSE IF Len(text) = 2
       THEN <<(Ix(text[1]) * 64 + Ix(text[2])) \div 16>>
       ELSE IF Len(text) = 3
       THEN LET v == ((Ix(text[1]) * 64 + Ix(text[2])) * 64 + Ix(text[3])) \div 4
            IN <<v \div 256, v % 256>>
       ELSE LET v == ((Ix(text[1]) * 64 + Ix(text[2])) * 64 + Ix(text[3])) * 64
                     + Ix(text[4])
            IN <<v \div 65536, (v \div 256) % 256, v % 256>>
               \o urlsafe_b64decode(SubSeq(text, 5, Len(text)))

\* the number a big-endian byte sequence denotes
RECURSIVE from_bytes(_)
from_bytes(b) ==
    IF Len(b) = 0 THEN 0
    ELSE from_bytes(SubSeq(b, 1, Len(b) - 1)) * 256 + b[Len(b)]

\* the public key reconstructed from the n and e of a JWK
KeyOfJwk(jwk) ==
    [kind |-> "public", n |-> from_bytes(urlsafe_b64decode(jwk.n)),
     e |-> from_bytes(urlsafe_b64decode(jwk.e))]

\* the key a call of get_or_create_keypair made now returns: private, public
SigningKey == get_or_create_keypair(key_files, nkeys).pair[1]
ServedKey == get_or_create_keypair(key_files, nkeys).pair[2]

\* the token was made by the token endpoint and verifies under the key at the
\* time t
VerifiesAt(t, token, public_key_pem) ==
    jwt_decode(t, token, public_key_pem, ISSUER, AUDIENCE).ok

----------------------------------------------------------------------------
\* what C16 says of one step
C16_Step ==
    /\ load_keypair(key_files) # {}
       => /\ key_files' = key_files
          /\ nkeys' = nkeys
          /\ (Handled /\ req'.endpoint = "jwks")
             => resp'.keys = <<public_key_to_jwk(ServedKey, DEFAULT_KID)>>
          /\ (Handled /\ IsToken(resp'))
             => resp'.access_token.signature.n = SigningKey.n
    /\ (held_token' # NoToken /\ now' < held_token'.claims.exp)
       => VerifiesAt(now', held_token', ServedKey')

(* C16: once both key files exist no step replaces them or generates a key, *)
(* every JWKS response and every token issued afterwards, also after a      *)
(* restart, uses the pair of the files, and the token the client holds      *)
(* verifies under the key served now for as long as it is unexpired.        *)
C16_KeypairStable == [][C16_Step]_vars

\* the process has just been started again and the client holds an unexpired
\* token issued before, which verifies under the key served now
C16_Witness ==
    /\ req.endpoint = "start"
    /\ boots = 2
    /\ held_token # NoToken
    /\ now > held_token.claims.iat
    /\ now < held_token.claims.exp
    /\ VerifiesAt(now, held_token, ServedKey)

----------------------------------------------------------------------------
----------------------------------------------------------------------------
\* the token is as create_access_token made it: RS256, signed over its content
MadeByCreate(token) ==
    /\ "header" \in DOMAIN token
    /\ token.header.alg = "RS256"
    /\ token.signature = [n |-> token.signature.n, header |-> token.header,
                          claims |-> token.claims]

\* the last call was verify_token, on a token of create_access_token, with the
\* public key of the signing key and the issuer and audience of the token
C18_Matching ==
    /\ verified.called = "verify_token"
    /\ MadeByCreate(verified.token)
    /\ verified.expected.public_key_pem.n = verified.token.signature.n
    /\ verified.expected.issuer = verified.token.claims.iss
    /\ verified.expected.audience = verified.token.claims.aud

(* C18: the token create_access_token has just made has exp = iat + ttl     *)
(* with iat the time of the call; verify_token, called with the matching    *)
(* public key and the issuer and audience of the token, returns its claims  *)
(* when the time of the call is before exp and fails when it is exp or      *)
(* later, so a token of zero or negative ttl never verifies.                *)
C18_ExpiryOfToken ==
    /\ req.endpoint = "create_access_token"
       => /\ held_token.claims.exp = held_token.claims.iat + req.args.expires_delta
          /\ held_token.claims.iat <= now
    /\ C18_Matching
       => IF verified.at < verified.token.claims.exp
          THEN verified.outcome.ok /\ verified.outcome.claims = verified.token.claims
          ELSE ~verified.outcome.ok

\* a token made with a zero ttl has just failed verification at the time it
\* was made
C18_Witness ==
    /\ C18_Matching
    /\ verified.token.claims.exp = verified.token.claims.iat
    /\ verified.at = verified.token.claims.iat
    /\ ~verified.outcome.ok

----------------------------------------------------------------------------
(* C19: verify_token fails for every token that is malformed, whose issuer  *)
(* or audience is not the expected one, whose signature was not made over   *)
(* its content with the key of the public key given, or whose header kid is *)
(* not the key id of the server.                                            *)
C19_VerifyRejects ==
    (/\ verified.called = "verify_token"
     /\ \/ ~MadeByCreate(verified.token)
        \/ verified.token.signature.n # verified.expected.public_key_pem.n
        \/ verified.token.claims.iss # verified.expected.issuer
        \/ verified.token.claims.aud # verified.expected.audience
        \/ verified.token.header.kid # DEFAULT_KID)
    => ~verified.outcome.ok

(* C20: a failed verification following a failed verification has the same *)
(* outcome as it, for verify_token as for validate_token of the simple      *)
(* server, whatever the two causes are.                                     *)
C20_UniformFailure ==
    (/\ verified.called \in {"verify_token", "validate_token"}
     /\ verified.before.called = verified.called
     /\ ~verified.outcome.ok
     /\ ~verified.before.outcome.ok)
    => verified.outcome = verified.before.outcome

----------------------------------------------------------------------------
\* the step ends in a newly started process
Started == boots' # boots

\* the step is a registration that was answered with credentials
Registered == nreq' # nreq /\ req'.endpoint = "register" /\ resp'.status = 200

C21_Step ==
    /\ Started
       => /\ \A text \in client_file' : text.whole
          /\ \A old \in client_file, text \in client_file' :
                \A id \in DOMAIN old.data : id \in DOMAIN text.data
    /\ Registered => client_file' = {json_dumps(clients')}

(* C21: when the process dies during a mutation of the registry, the file   *)
(* holds a whole snapshot, that of before the mutation or that of after it, *)
(* never a partial or empty text; and after every completed registration    *)
(* the file holds exactly the clients of the registry in memory.            *)
C21_AtomicPersistence == [][C21_Step]_vars

----------------------------------------------------------------------------
(* C22: a registration during which the write of the file failed is         *)
(* answered server_error (500), not with credentials.                       *)
C22_WriteFailureIsServerError ==
    (req.endpoint = "register" /\ "io" \in DOMAIN req)
    => IsError(resp, 500, "server_error")

----------------------------------------------------------------------------
\* both key files hold the whole PEM texts of the pair of modulus n
KeyOnDisk(n) ==
    /\ key_files.private = {[kind |-> "private", n |-> n, e |-> PUBLIC_EXPONENT]}
    /\ key_files.public = {[kind |-> "public", n |-> n, e |-> PUBLIC_EXPONENT]}

(* C23: a request during which save_keypair failed is answered with the     *)
(* failure, not with a token or a key; and every token issued and every     *)
(* JWKS entry served is of a pair whose two files are whole on disk.        *)
C23_KeyFailurePropagates ==
    /\ (req.endpoint \in {"token", "jwks"} /\ "io" \in DOMAIN req)
       => resp = InternalServerError
    /\ IsToken(resp) => KeyOnDisk(resp.access_token.signature.n)
    /\ (req.endpoint = "jwks" /\ resp.status = 200)
       => KeyOnDisk(KeyOfJwk(resp.keys[1]).n)

----------------------------------------------------------------------------
C26_Step ==
    (Started /\ req'.endpoint = "start" /\ client_file = {json_dumps(clients)})
    => /\ clients' = clients
       /\ auth_codes' = auth_codes

(* C26: a registry constructed from the file, after operations that all     *)
(* completed and wrote the file, has the clients and the authorization      *)
(* codes, with their used flags, of the registry that wrote the file.       *)
C26_StoreHoldsClientsAndCodes == [][C26_Step]_vars

----------------------------------------------------------------------------
\* the error codes and the HTTP status of each
ErrorTaxonomy ==
    {<<"invalid_request", 400>>, <<"invalid_client", 401>>,
     <<"invalid_grant", 400>>, <<"unsupported_grant_type", 400>>,
     <<"server_error", 500>>}

(* C24: the response to a request that the register, authorize or token     *)
(* endpoint rejected carries an error code with the HTTP status of that     *)
(* code: invalid_client with 401, at the authorize endpoint too,            *)
(* invalid_request, invalid_grant and unsupported_grant_type with 400,      *)
(* server_error with 500.                                                   *)
C24_ErrorTaxonomy ==
    (req.endpoint \in {"register", "authorize", "token"} /\ resp.status >= 400)
    => /\ "error" \in DOMAIN resp
       /\ <<resp.error, resp.status>> \in ErrorTaxonomy

----------------------------------------------------------------------------
\* no thread is between taking and releasing the lock
Unlocked == \A w \in Workers : wpc[w] \notin InLock

\* the clients that threads have stored and returned
Created == {ClientOf(w) : w \in {v \in Workers : wpc[v] = "done"}}

----------------------------------------------------------------------------
\* the step is the handling of a request of a tool endpoint
ToolRequest ==
    /\ <<req', resp'>> # <<req, resp>>
    /\ req'.endpoint \in {"tools/list", "tools/call"}

\* the bearer token of the request verifies now: made with the secret of the
\* server over its content, for the server as audience, not expired
BearerVerifies ==
    /\ req'.credentials # NoToken
    /\ "header" \in DOMAIN req'.credentials
    /\ req'.credentials.header.alg = "HS256"
    /\ req'.credentials.signature =
          [secret |-> ServerSettings.SECRET_KEY,
           header |-> req'.credentials.header, claims |-> req'.credentials.claims]
    /\ req'.credentials.claims.aud = ServerSettings.SERVER_URI
    /\ req'.credentials.claims.exp >= now

C27_Step ==
    ToolRequest
    => /\ (resp'.status = 200 \/ resp'.ran # NONE) => BearerVerifies
       /\ req'.credentials = NoToken => resp'.status = 403
       /\ (req'.credentials # NoToken /\ ~BearerVerifies) => resp'.status = 401
       /\ (BearerVerifies /\ req'.endpoint = "tools/call"
           /\ req'.name \notin DOMAIN TOOLS)
          => (resp'.status = 404 /\ resp'.ran = NONE)

----------------------------------------------------------------------------
(* C28: when threads call save_server and delete_server for different       *)
(* servers concurrently, the file reflects the call of every thread that    *)
(* has returned: the server a thread saved last is in the file as saved,    *)
(* the server it deleted last is not in the file.                           *)
C28_NoLostUpdate ==
    \A w \in Workers :
        wpc[w] = "done"
        => IF wreq[w].endpoint = "save_server"
           THEN \E i \in 1..Len(servers_file) : servers_file[i] = wreq[w].server
           ELSE \A i \in 1..Len(servers_file) :
                   servers_file[i].id # wreq[w].server.id

----------------------------------------------------------------------------
(* C29: start_and_wait returns a code only for a valid callback *)

\* a callback with a state equal to expected_state and a non-empty code
StateAndCodeValid(q) == q.state = expected_state /\ Truthy(q.code)

\* start_and_wait has returned or raised
Finished == callback.waiter \in {"returned", "raised"}

\* C29, as stated: once start_and_wait has finished, it has returned a code
\* only if some callback had no error parameter, a state equal to
\* expected_state and that code, non-empty; otherwise it has raised
\* ValueError; and the code handed to the token exchange is such a code.
\* Violated: a callback ?error=&state=state1&code=code1 carries an error
\* parameter, an empty one, and its code is returned.
C29_OnlyValidCallbackReturns ==
    /\ Finished
       => IF \E q \in callback.requests :
                q.error = NONE /\ StateAndCodeValid(q) /\ q.code = callback.result
          THEN callback.waiter = "returned"
          ELSE callback.waiter = "raised" /\ Truthy(callback.raised)
    /\ callback.exchanged # NONE
       => \E q \in callback.requests :
             q.error = NONE /\ StateAndCodeValid(q) /\ q.code = callback.exchanged

\* C29, amended: a code is returned, and handed to the token exchange, only
\* if some callback had no error parameter or an empty one, a state equal to
\* expected_state and that code, non-empty; in every other case
\* start_and_wait raises ValueError and nothing is handed to the exchange;
\* no callback of a run whose code reaches the exchange had a missing or
\* mismatched state.
C29_ValidCallbackReturns ==
    /\ callback.waiter = "returned"
       => /\ Truthy(callback.result)
          /\ callback.raised = NONE
          /\ \E q \in callback.requests :
                ~Truthy(q.error) /\ StateAndCodeValid(q) /\ q.code = callback.result
    /\ callback.waiter = "raised"
       => Truthy(callback.raised) /\ callback.result = NONE
    /\ callback.waiter # "returned" => callback.exchanged = NONE
    /\ callback.exchanged # NONE
       => /\ callback.exchanged = callback.result
          /\ \A q \in callback.requests : q.state = expected_state

\* two valid callbacks arrived, the second before the server was shut down,
\* and the code of one was returned and handed to the exchange
C29_Witness ==
    /\ callback.exchanged = "code1"
    /\ \E q \in callback.requests : q.code = "code2" /\ StateAndCodeValid(q)
    /\ \E q \in callback.requests : q.code = "code1" /\ StateAndCodeValid(q)

\* a callback with a mismatched state and a code arrived, and start_and_wait
\* raised
C29_RaisedOnBadState ==
    /\ callback.waiter = "raised"
    /\ \E q \in callback.requests :
          q.state = "state2" /\ Truthy(q.code) /\ q.error = NONE

----------------------------------------------------------------------------
(* C30: the MCP client's calls need a connection, disconnect clears all *)

\* C30: list_tools and call_tool on a client that is not connected (never
\* connected, disconnected, or left by a connect() that raised) raise
\* RuntimeError, and after disconnect() the session, the SSE context and
\* the streams are all None.  Violated: a connect() that raises at line 52
\* leaves _sse_context set with _streams None, which disconnect() does not
\* clear; one that raises at line 59 or 62 leaves session set, so that
\* list_tools passes the test of line 75.
C30_NotConnectedRaises ==
    /\ (mcp_client.called \in {"list_tools", "call_tool"} /\ ~mcp_client.connected)
       => mcp_client.raised = "RuntimeError"
    /\ mcp_client.called = "disconnect"
       => /\ mcp_client.session = NONE
          /\ mcp_client._sse_context = NONE
          /\ mcp_client._streams = NONE

----------------------------------------------------------------------------
(* C31: the registry changes through registration, approval and exchange *)

\* every client stored before the step is stored unchanged after it
ClientsKept == \A id \in DOMAIN clients : id \in DOMAIN clients' /\ clients'[id] = clients[id]

\* every code stored before the step is stored after it, with the same
\* fields but possibly its used flag
CodesKept ==
    \A k \in DOMAIN auth_codes :
        /\ k \in DOMAIN auth_codes'
        /\ [auth_codes'[k] EXCEPT !.used = FALSE] = [auth_codes[k] EXCEPT !.used = FALSE]

\* the step is a consent approval: a POST /authorize answered by the redirect
IsApproval == req'.endpoint = "authorize" /\ req'.method = "POST" /\ resp'.status = 302

\* the step is a code exchange answered by a token
IsExchanged == req'.endpoint = "token" /\ req'.grant_type = AC /\ IsToken(resp')

\* what C31 says of one step that handles a request
C31_Step ==
    Handled
    => /\ ClientsKept
       /\ CodesKept
       /\ \A k \in DOMAIN auth_codes : auth_codes[k].used => auth_codes'[k].used
       /\ IF req'.endpoint = "register"
          THEN /\ resp'.client_id \notin DOMAIN clients
               /\ DOMAIN clients' = DOMAIN clients \cup {resp'.client_id}
               /\ auth_codes' = auth_codes
          ELSE clients' = clients
       /\ IF IsApproval
          THEN \E k \in DOMAIN auth_codes' \ DOMAIN auth_codes :
                  /\ DOMAIN auth_codes' = DOMAIN auth_codes \cup {k}
                  /\ ~auth_codes'[k].used
                  /\ auth_codes'[k].client_id = req'.client_id
                  /\ auth_codes'[k].redirect_uri = req'.redirect_uri
                  /\ auth_codes'[k].code_challenge = req'.code_challenge
                  /\ auth_codes'[k].code_challenge_method
                        = Default(req'.code_challenge_method, "plain")
                  /\ auth_codes'[k].scope = Default(req'.scope, DEFAULT_SCOPE)
                  /\ \A j \in DOMAIN auth_codes : auth_codes'[j] = auth_codes[j]
          ELSE IF IsExchanged
          THEN /\ req'.code \in DOMAIN auth_codes
               /\ ~auth_codes[req'.code].used
               /\ auth_codes' = [auth_codes EXCEPT ![req'.code].used = TRUE]
          ELSE auth_codes' = auth_codes

----------------------------------------------------------------------------
(* C32: grants are issued only to clients registered for them *)

\* C32: every token issued under a grant type goes to a client whose
\* registered grant_types contain that grant type, and every code stored by
\* the authorize endpoint belongs to a client registered for
\* authorization_code.  Violated: no handler reads grant_types, so a client
\* registered with the default [client_credentials] is given a code.
C32_GrantTypesEnforced ==
    /\ (req.endpoint = "token" /\ IsToken(resp))
       => /\ req.client_id \in DOMAIN clients
          /\ req.grant_type \in clients[req.client_id].grant_types
    /\ \A k \in DOMAIN auth_codes :
          /\ auth_codes[k].client_id \in DOMAIN clients
          /\ AC \in clients[auth_codes[k].client_id].grant_types

----------------------------------------------------------------------------
(* C33: concurrent first calls of get_or_create_keypair leave one keypair *)

\* no request is inside get_or_create_keypair
KeysQuiet == \A w \in Workers : wpc[w] \in {"idle", "done"}

\* C33: once the requests that raced on the missing key files have all
\* returned, the private and the public file hold the two halves of one
\* keypair, and every token those requests signed verifies under the key of
\* the public file, which the JWKS endpoint serves from then on.  Violated:
\* two requests find no files, each generates a pair, and their writes
\* interleave.
C33_RaceLeavesOnePair ==
    (KeysQuiet /\ nkeys > 0)
    => /\ load_keypair(key_files) # {}
       /\ \A l \in load_keypair(key_files) : l[1].n = l[2].n
       /\ \A w \in Workers :
             (wpc[w] = "done" /\ wreq[w].endpoint = "token")
             => VerifiesAt(now, wresp[w].access_token, ServedKey)

----------------------------------------------------------------------------
(* C34: one keypair per process lifetime *)

\* the response used a key: a token was signed or the JWKS was served
UsedKey(response) ==
    IsToken(response) \/ (response.status = 200 /\ "keys" \in DOMAIN response)

\* the modulus of the key the response used
KeyUsed(response) ==
    IF IsToken(response) THEN response.access_token.signature.n
    ELSE KeyOfJwk(response.keys[1]).n

\* what C34 says of one step: a request of a process that has already used
\* a key uses the same key (a restart clears resp)
C34_Step ==
    (Handled /\ UsedKey(resp) /\ UsedKey(resp'))
    => KeyUsed(resp') = KeyUsed(resp)

(* C34: within one process lifetime every token is signed with, and every   *)
(* JWKS response serves, the key of the first get_or_create_keypair call,   *)
(* whatever happens to the key files in between.  Violated: the files are   *)
(* read on every call, so the next request after they were replaced uses    *)
(* the new pair.                                                            *)
C34_KeypairCached == [][C34_Step]_vars

----------------------------------------------------------------------------
(* C35: the registry locks are released on every path and never taken twice *)

(* C35: at most one thread holds the registry lock and at most one the      *)
(* get_storage lock, and under fair scheduling every thread that is         *)
(* handling a register, authorize or token request completes it, also when  *)
(* the write of the client file fails: no thread waits for ever for a lock. *)
C35_AllRequestsComplete ==
    /\ [](Cardinality(LockHolders) <= 1 /\ Cardinality(StorageLockHolders) <= 1)
    /\ \A w \in Workers : (wpc[w] \in Busy) ~> (wpc[w] = "done")

\* every thread has completed its request, a code was exchanged, and the
\* last write of the client file failed after the file was opened
C35_Witness ==
    /\ \A w \in Workers : wpc[w] = "done"
    /\ \E k \in DOMAIN auth_codes : auth_codes[k].used
    /\ client_file = {TruncatedText}

----------------------------------------------------------------------------
(* C36: ServersStorage holds one entry per server id *)

\* no two entries of the list have the same id
OnePerId(servers) ==
    \A i, j \in 1..Len(servers) : servers[i].id = servers[j].id => i = j

\* the entries of the list whose id is not the given one, in their order
Others(servers, id) ==
    LET NotId(x) == x.id # id
    IN SelectSeq(servers, NotId)

\* what C36 says of the step in which thread w changes the storage it read
\* and writes it
C36_Step ==
    \A w \in Workers :
        (wpc[w] = "write" /\ wpc'[w] = "done")
        => LET storage == wresp[w].storage
               server == wreq[w].server
               had == \E i \in 1..Len(storage) : storage[i].id = server.id
           IN IF wreq[w].endpoint = "save_server"
              THEN /\ \E i \in 1..Len(servers_file') : servers_file'[i] = server
                   /\ OnePerId(servers_file')
                   /\ Others(servers_file', server.id) = Others(storage, server.id)
              ELSE /\ wresp'[w].returned = (IF had THEN "True" ELSE "False")
                   /\ had => /\ servers_file' = Others(storage, server.id)
                             /\ Len(servers_file') = Len(storage) - 1
                   /\ ~had => servers_file' = servers_file

(* C36: the list of the file never holds two entries of one id; a save      *)
(* leaves exactly one entry of the server's id, the server saved, and the   *)
(* entries of the other ids as they were; a delete returns true exactly     *)
(* when the list held an entry of the id, and then removes that entry and   *)
(* no other.                                                                *)
C36_OneEntryPerId == [](OnePerId(servers_file)) /\ [][C36_Step]_vars

\* a delete has returned true and left the other server in the list
C36_Witness ==
    \E w \in Workers :
        /\ wpc[w] = "done"
        /\ wreq[w].endpoint = "delete_server"
        /\ wresp[w].returned = "True"
        /\ Len(servers_file) = 1
        /\ servers_file[1].id # wreq[w].server.id

====
